---- MODULE Spec2Model ----
(***************************************************************************)
(* ThinkLink: a model of the meetup application.                           *)
(*                                                                         *)
(*  - the session-authenticated HTTP server (join / leave / messages /     *)
(*    meetup detail / create meetup) over the participations, meetups and  *)
(*    messages tables.  Every awaited data-store call of a handler is one  *)
(*    atomic step, so that requests interleave exactly where the code      *)
(*    yields.  Spec lets two requests run concurrently, SeqSpec runs the   *)
(*    same handlers one request at a time; FailSpec adds data-store calls  *)
(*    that throw.                                                          *)
(*  - the stored procedure get_future_meetups and a client that pages      *)
(*    through it with a fixed topic and limit (FutureSpec).                *)
(*  - the browser client's auth context, router location and profile      *)
(*    gatekeeper (GateSpec), and the same with signing out (SessionSpec).  *)
(*  - every endpoint of the server, one request at a time (ApiSpec, and    *)
(*    CatalogSpec with a second meetup).                                   *)
(*  - the "future" listings as two devices fetch them (ListSpec), the      *)
(*    join / leave buttons of the direct-to-backend client (ClientSpec)    *)
(*    and the home list's topic and page state (HomeSpec).                 *)
(***************************************************************************)
EXTENDS Integers, FiniteSets, Sequences, Bags, TLC

\* ---------------------------------------------------------------- bounds
MaxCapacity == 2        \* capacities a created meetup may carry: 0..MaxCapacity
MaxMessages == 1        \* message rows stored in one behaviour
MaxInstant  == 2        \* evaluation instants (UTC hours) 0..MaxInstant
MaxHistory  == 3        \* browser history entries kept behind the current one
MonthsPerYear == 2      \* months of the calendar dates are taken from
DaysPerMonth  == 2      \* days of each of its months

\* ------------------------------------------------------------ input sets
UserIds    == {"u1", "u2", "u3"}
NoUser     == "none"                 \* a request that carries no session
MeetupIds  == {"m1", "m2"}          \* ids a request may name; "m2" names no meetup
Reqs       == {"r1", "r2"}           \* requests that may be in flight together
Capacities == 0..MaxCapacity
\* request bodies: one that passes the zod schema, one that fails it, and one that
\* passes and also carries hostId / userId / meetupId / id values of its own
Bodies     == {"valid", "invalid", "spoofed"}

Absent == -1                         \* a response field the handler did not send

VARIABLES
  meetups,         \* table meetups: id -> [hostId, capacity]
  participations,  \* table participations: bag of [meetupId, userId, status]
  messages,        \* table messages: bag of [meetupId, userId]
  pc,              \* per request: position in its handler
  req,             \* per request: [kind, user, meetupId, body]
  local,           \* per request: handler locals
  res,             \* per request: the response sent
  pre              \* per request: tables as they were when the request arrived

srvVars == <<meetups, participations, messages, pc, req, local, res, pre>>

VARIABLES
  users,           \* table users: id -> [email, displayName, photoUrl]
  appFeedback      \* table app_feedback: bag of [userId]

apiVars == <<users, appFeedback>>

VARIABLES
  sbMeetups,       \* hosted table meetups: id -> [start_at, topic, host_id]
  now,             \* the instant now() of the stored procedure's evaluation
  qTopic,          \* p_topic of the client's current query
  qLimit,          \* p_limit of the client's current query
  pages            \* page index -> [fetched, rows]: result of the query for that page

futVars == <<sbMeetups, now, qTopic, qLimit, pages>>

VARIABLES
  sbJoined,        \* hosted table participations: meetup ids the viewer has joined
  clientClock,     \* per client device: what its own clock reads at the instant now
  listing          \* per client device: the listing it fetched last, [tab, build, ids]

listVars == <<sbJoined, clientClock, listing>>

VARIABLES
  sbParticipations, \* hosted table participations: bag of [meetupId, userId, status]
  sbCapacity,       \* capacity of the meetup the detail page shows
  mutation          \* per signed-in user: the join / leave mutation of the detail page

cliVars == <<sbParticipations, sbCapacity, mutation>>

VARIABLES
  futureCount,    \* per topic filter: future meetups the hosted table holds
  selectedTopic,  \* HomePage state: the topic chip selected
  currentPage,    \* HomePage state: the page index
  queryCache,     \* query cache: ["meetups", topic, page] -> rows received
  lastHandler     \* the HomePage handler that ran last

homeVars == <<futureCount, selectedTopic, currentPage, queryCache, lastHandler>>

VARIABLES
  form            \* CompleteProfilePage: the form, its submission and what it wrote

formVars == <<form>>

VARIABLES
  myEvents      \* the My Events page: the stored future meetups and what a tab lists
evVars == <<myEvents>>

VARIABLES
  tzCheck       \* one stored start_at, one instant, and what each future filter selects
tzVars == <<tzCheck>>

VARIABLES
  guest         \* a visitor's way from a protected action through the auth page
navVars == <<guest>>

VARIABLES
  session,           \* hosted auth: the user id of the browser's session, or NoUser
  profiles,          \* hosted table profiles, the row of that user: "absent", "empty" or "name"
  authUser,          \* AuthProvider state user: NoUser or [id, ref]
  isLoading,         \* AuthProvider state isLoading
  profileComplete,   \* AuthProvider state profileComplete: "null", "true" or "false"
  location,          \* the router's current path
  backStack,         \* browser history entries behind the current one
  getSessionPending, \* supabase.auth.getSession() not yet resolved
  authEvents,        \* onAuthStateChange events not yet delivered (their sessions)
  delivered,         \* sessions handed to the AuthProvider since the page load
  checks,            \* checkProfileCompletion calls in flight
  refreshPending,    \* a refreshProfileStatus call is in flight
  gateRan,           \* dependencies the gatekeeper's redirect effect last ran with
  refreshRan,        \* dependencies the gatekeeper's refresh effect last ran with
  authPageRan        \* dependencies the auth page's redirect effect last ran with

gateVars == <<session, profiles, authUser, isLoading, profileComplete, location, backStack,
              getSessionPending, authEvents, delivered, checks, refreshPending,
              gateRan, refreshRan, authPageRan>>

\* --------------------------------------------------------------- schema
\* participations row as inserted by the join handler (status defaults to 'joined')
ParticipationRow(meetupId, userId, status) ==
  [meetupId |-> meetupId, userId |-> userId, status |-> status]

MessageRow(meetupId, userId) == [meetupId |-> meetupId, userId |-> userId]

\* users row of a registered user; the email is unique and never updated
UserRow(id, displayName, photoUrl) ==
  [email |-> id, displayName |-> displayName, photoUrl |-> photoUrl]

FeedbackRow(userId) == [userId |-> userId]

NoReq   == [kind |-> "none", user |-> NoUser, meetupId |-> "none", body |-> "none"]
NoLocal == [capacity |-> Absent, hostId |-> "none", count |-> Absent, deleted |-> Absent]
NoRes   == [status |-> 0, message |-> "", joined_count |-> Absent,
            capacity |-> Absent, is_full |-> FALSE, rows |-> EmptyBag,
            login |-> NoUser]
NoPre   == [participations |-> EmptyBag, messages |-> EmptyBag, meetups |-> << >>,
            users |-> << >>, appFeedback |-> EmptyBag]

\* the part of a bag whose elements satisfy Keep
SubBagWhere(B, Keep(_)) == [x \in {y \in DOMAIN B : Keep(y)} |-> B[x]]

\* ------------------------------------------------------ storage (queries)
\* storage.getMeetup: the row, or undefined
HasMeetup(id) == id \in DOMAIN meetups

\* storage.getParticipation: select where meetupId and userId; truthy iff a row exists
RowsOfIn(P, meetupId, userId) ==
  SubBagWhere(P, LAMBDA x : x.meetupId = meetupId /\ x.userId = userId)

\* arguments passed in the wrong order
getParticipation_Swapped(meetupId, userId) ==
  BagCardinality(RowsOfIn(participations, userId, meetupId)) > 0

getParticipation(meetupId, userId) ==
  BagCardinality(RowsOfIn(participations, meetupId, userId)) > 0

\* storage.getParticipationCount: count(*) where meetupId (no status filter)
CountIn(P, meetupId) ==
  BagCardinality(SubBagWhere(P, LAMBDA x : x.meetupId = meetupId))

getParticipationCount(meetupId) == CountIn(participations, meetupId)

\* the join filters on a status value no row carries
JoinedCount_WrongStatus(meetupId) ==
  BagCardinality(SubBagWhere(participations,
      LAMBDA x : x.meetupId = meetupId /\ x.status = "active"))

\* storage.getMeetupWithHost: joined_count = COUNT over the left join on status = 'joined'
JoinedCount(meetupId) ==
  BagCardinality(SubBagWhere(participations,
      LAMBDA x : x.meetupId = meetupId /\ x.status = "joined"))

\* storage.getMessagesByMeetup
getMessagesByMeetup(meetupId) ==
  SubBagWhere(messages, LAMBDA x : x.meetupId = meetupId)

\* off by one: > in place of >=
IsFull_Gt(count, capacity) == count > capacity

\* the capacity test left out
IsFull_Never(count, capacity) == FALSE

\* currentCount >= meetup.capacity
IsFull(count, capacity) == count >= capacity

\* meetup?.capacity || 0
CapacityOrZero(id) == IF HasMeetup(id) THEN meetups[id].capacity ELSE 0

\* negation misplaced: !(isHost || !isParticipant)
AccessDenied_Misplaced(isHost, isParticipant) == ~(isHost \/ ~isParticipant)

\* !isHost && !isParticipant
AccessDenied(isHost, isParticipant) == ~isHost /\ ~isParticipant

\* ------------------------------------------------------- request handling
\* the always-true check: no endpoint asks for a session
isAuthenticated_Always(user) == TRUE

\* req.isAuthenticated()
isAuthenticated(user) == user # NoUser

\* the id fields a request body carries
SpoofedUser   == "u3"
SpoofedMeetup == "m2"
BodyIds(body) ==
  IF body = "spoofed"
    THEN [id |-> SpoofedUser, hostId |-> SpoofedUser, userId |-> SpoofedUser,
          meetupId |-> SpoofedMeetup]
    ELSE << >>

\* the spread written the other way round: { ...second, ...first }
Spread_BodyLast(first, second) == first @@ second

\* { ...first, ...second }: a key of second replaces the same key of first
Spread(first, second) == second @@ first

\* ----------------------------------------------------------- responses
Reply(status, message) == [NoRes EXCEPT !.status = status, !.message = message]

\* a server step ends by answering or by awaiting the next data-store call;
\* it never touches the state of the hosted backend and its clients
Respond(r, response) ==
  /\ pc'  = [pc  EXCEPT ![r] = "done"]
  /\ res' = [res EXCEPT ![r] = response]
  /\ UNCHANGED <<futVars, listVars, cliVars, homeVars, formVars, evVars, tzVars, navVars, gateVars>>

Goto(r, label) ==
  /\ pc' = [pc EXCEPT ![r] = label]
  /\ UNCHANGED <<res, futVars, listVars, cliVars, homeVars, formVars, evVars, tzVars, navVars, gateVars>>

\* a request arrives at an idle slot
Arrive(r, kind, user, meetupId, body) ==
  /\ pc[r] = "idle"
  /\ req' = [req EXCEPT ![r] = [kind |-> kind, user |-> user,
                                meetupId |-> meetupId, body |-> body]]

AllIdle == \A r \in Reqs : pc[r] = "idle"

\* requests executed one at a time: r arrives while no request is in flight,
\* and the tables it finds are remembered
Alone(r) ==
  /\ AllIdle
  /\ pre' = [pre EXCEPT ![r] = [participations |-> participations,
                                messages |-> messages, meetups |-> meetups,
                                users |-> users, appFeedback |-> appFeedback]]

\* gen_random_uuid(): a fresh key; keys are opaque, so the first unused one of
\* the keys handed out is taken.  One meetup is created in a behaviour of the
\* join / leave / message specifications and ApiSpec, two in CatalogSpec.
IdOrder == <<"m1">>

ApiIdOrder == <<"m1", "m2">>

FreshIdOf_Reused(ids) == ids[1]

FreshIdOf(ids) ==
  ids[CHOOSE i \in 1..Len(ids) :
        /\ ids[i] \notin DOMAIN meetups
        /\ \A j \in 1..(i - 1) : ids[j] \in DOMAIN meetups]

FreshId == FreshIdOf(IdOrder)

\* ------------------------------------------------------------------ Init
SrvInit ==
  /\ meetups = << >>
  /\ participations = EmptyBag
  /\ messages = EmptyBag
  /\ pc    = [r \in Reqs |-> "idle"]
  /\ req   = [r \in Reqs |-> NoReq]
  /\ local = [r \in Reqs |-> NoLocal]
  /\ res   = [r \in Reqs |-> NoRes]
  /\ pre   = [r \in Reqs |-> NoPre]
  /\ users = [u \in UserIds |-> UserRow(u, "initial", "initial")]
  /\ appFeedback = EmptyBag

\* the paging client before it is used
FutureIdle ==
  /\ sbMeetups = << >>
  /\ now = 0
  /\ qTopic = "NULL"
  /\ qLimit = 1
  /\ pages = << >>

\* no client device has fetched a listing
ListIdle ==
  /\ sbJoined = {}
  /\ clientClock = << >>
  /\ listing = << >>

\* no meetup detail page open
ClientIdle ==
  /\ sbParticipations = EmptyBag
  /\ sbCapacity = 0
  /\ mutation = << >>

\* HomePage not mounted
HomeIdle ==
  /\ futureCount = << >>
  /\ selectedTopic = "-"
  /\ currentPage = 0
  /\ queryCache = << >>
  /\ lastHandler = "-"

\* CompleteProfilePage not mounted
FormIdle == form = << >>
EventsIdle == myEvents = << >>
FilterIdle == tzCheck = << >>
GuestIdle == guest = << >>

\* AuthProvider's user state when it is null
NoAuthUser == [id |-> NoUser, ref |-> 0]

\* dependencies of an effect that has not run since the page load
Unmounted == <<"unmounted", NoAuthUser, "unmounted">>

\* no browser tab open

GateIdle ==
  /\ session = NoUser
  /\ profiles = "absent"
  /\ authUser = NoAuthUser
  /\ isLoading = TRUE
  /\ profileComplete = "null"
  /\ location = "/"
  /\ backStack = << >>
  /\ getSessionPending = FALSE
  /\ authEvents = << >>
  /\ delivered = 0
  /\ checks = 0
  /\ refreshPending = FALSE
  /\ gateRan = Unmounted
  /\ refreshRan = Unmounted
  /\ authPageRan = Unmounted

Init == SrvInit /\ FutureIdle /\ ListIdle /\ ClientIdle /\ HomeIdle /\ FormIdle /\ EventsIdle /\ FilterIdle /\ GuestIdle /\ GateIdle

\* ------------------------------------------------- POST /api/meetups
CreateMeetupOf(r, user, body, capacity, ids) ==
  /\ UNCHANGED apiVars
  /\ Arrive(r, "create", user, "none", body)
  /\ UNCHANGED <<participations, messages, local>>
  /\ IF ~isAuthenticated(user)
       THEN /\ Respond(r, Reply(401, "Authentication required"))
            /\ UNCHANGED meetups
       ELSE IF body = "invalid"
         THEN /\ Respond(r, Reply(400, "Invalid meetup data"))
              /\ UNCHANGED meetups
         ELSE /\ Cardinality(DOMAIN meetups) < Len(ids)
              /\ meetups' = [x \in DOMAIN meetups \cup {FreshIdOf(ids)} |->
                               IF x = FreshIdOf(ids)
                                 THEN [hostId |-> Spread(BodyIds(body), [hostId |-> user]).hostId,
                                       capacity |-> capacity]
                                              ELSE meetups[x]]
              /\ Respond(r, [Reply(201, "") EXCEPT !.capacity = capacity])

CreateMeetup(r, user, body, capacity) == CreateMeetupOf(r, user, body, capacity, IdOrder)

\* ------------------------------------------- POST /api/meetups/:id/join
JoinBegin(r, user, meetupId) ==
  /\ UNCHANGED apiVars
  /\ Arrive(r, "join", user, meetupId, "none")
  /\ UNCHANGED <<meetups, participations, messages, local>>
  /\ IF ~isAuthenticated(user)
       THEN Respond(r, Reply(401, "Authentication required"))
       ELSE Goto(r, "join_existing")

JoinGetParticipation_NoReject(r) ==
  /\ UNCHANGED apiVars
  /\ pc[r] = "join_existing"
  /\ UNCHANGED <<meetups, participations, messages, req, local, pre>>
  /\ Goto(r, "join_meetup")

JoinGetParticipation(r) ==
  /\ UNCHANGED apiVars
  /\ pc[r] = "join_existing"
  /\ UNCHANGED <<meetups, participations, messages, req, local, pre>>
  /\ IF getParticipation(req[r].meetupId, req[r].user)
       THEN Respond(r, Reply(400, "Already joined this meetup"))
       ELSE Goto(r, "join_meetup")

JoinGetMeetup(r) ==
  /\ UNCHANGED apiVars
  /\ pc[r] = "join_meetup"
  /\ UNCHANGED <<meetups, participations, messages, req, pre>>
  /\ IF ~HasMeetup(req[r].meetupId)
       THEN /\ Respond(r, Reply(404, "Meetup not found"))
            /\ UNCHANGED local
       ELSE /\ local' = [local EXCEPT ![r].capacity = meetups[req[r].meetupId].capacity]
            /\ Goto(r, "join_count")

JoinCount(r) ==
  /\ UNCHANGED apiVars
  /\ pc[r] = "join_count"
  /\ UNCHANGED <<meetups, participations, messages, req, pre>>
  /\ IF IsFull(getParticipationCount(req[r].meetupId), local[r].capacity)
       THEN /\ Respond(r, Reply(400, "Meetup is full"))
            /\ local' = [local EXCEPT ![r] = NoLocal]
       ELSE /\ Goto(r, "join_insert")
            /\ UNCHANGED local

JoinInsert(r) ==
  /\ UNCHANGED apiVars
  /\ pc[r] = "join_insert"
  /\ participations' = participations (+)
        SetToBag({ParticipationRow(req[r].meetupId, req[r].user, "joined")})
  /\ Goto(r, "join_recount")
  /\ UNCHANGED <<meetups, messages, req, local, pre>>

JoinRespond(r) ==
  /\ UNCHANGED apiVars
  /\ pc[r] = "join_recount"
  /\ LET updatedCount == getParticipationCount(req[r].meetupId)
     IN  Respond(r, [Reply(201, "") EXCEPT
                       !.joined_count = updatedCount,
                       !.capacity = local[r].capacity,
                       !.is_full = IsFull(updatedCount, local[r].capacity)])
  /\ local' = [local EXCEPT ![r] = NoLocal]
  /\ UNCHANGED <<meetups, participations, messages, req, pre>>

\* ----------------------------------------- DELETE /api/meetups/:id/leave
LeaveBegin(r, user, meetupId) ==
  /\ UNCHANGED apiVars
  /\ Arrive(r, "leave", user, meetupId, "none")
  /\ UNCHANGED <<meetups, participations, messages, local>>
  /\ IF ~isAuthenticated(user)
       THEN Respond(r, Reply(401, "Authentication required"))
       ELSE Goto(r, "leave_existing")

LeaveGetParticipation(r) ==
  /\ UNCHANGED apiVars
  /\ pc[r] = "leave_existing"
  /\ UNCHANGED <<meetups, participations, messages, req, local, pre>>
  /\ IF ~getParticipation(req[r].meetupId, req[r].user)
       THEN Respond(r, Reply(400, "You are not a participant in this meetup"))
       ELSE Goto(r, "leave_delete")

\* the delete without the userId condition
DeleteParticipations_WholeMeetup(P, meetupId, userId) ==
  SubBagWhere(P, LAMBDA x : x.meetupId # meetupId)

\* db.delete(participations).where(meetupId = :id and userId = :user)
DeleteParticipations(P, meetupId, userId) ==
  SubBagWhere(P, LAMBDA x : ~(x.meetupId = meetupId /\ x.userId = userId))

LeaveDelete(r) ==
  /\ UNCHANGED apiVars
  /\ pc[r] = "leave_delete"
  /\ participations' = DeleteParticipations(participations, req[r].meetupId, req[r].user)
  /\ local' = [local EXCEPT ![r].deleted =
        BagCardinality(RowsOfIn(participations, req[r].meetupId, req[r].user))]
  /\ Goto(r, "leave_count")
  /\ UNCHANGED <<meetups, messages, req, pre>>

LeaveCount(r) ==
  /\ UNCHANGED apiVars
  /\ pc[r] = "leave_count"
  /\ local' = [local EXCEPT ![r].count = getParticipationCount(req[r].meetupId)]
  /\ Goto(r, "leave_meetup")
  /\ UNCHANGED <<meetups, participations, messages, req, pre>>

LeaveRespond(r) ==
  /\ UNCHANGED apiVars
  /\ pc[r] = "leave_meetup"
  /\ Respond(r, [Reply(200, "Successfully left the meetup") EXCEPT
                   !.joined_count = local[r].count,
                   !.capacity = CapacityOrZero(req[r].meetupId),
                   !.is_full = IsFull(local[r].count, CapacityOrZero(req[r].meetupId))])
  /\ local' = [local EXCEPT ![r].count = Absent]
  /\ UNCHANGED <<meetups, participations, messages, req, pre>>

\* ------------------------------------------------ GET /api/meetups/:id
GetMeetupDetail(r, meetupId) ==
  /\ UNCHANGED apiVars
  /\ Arrive(r, "detail", NoUser, meetupId, "none")
  /\ UNCHANGED <<meetups, participations, messages, local>>
  /\ IF ~HasMeetup(meetupId)
       THEN Respond(r, Reply(404, "Meetup not found"))
       ELSE Respond(r, [Reply(200, "") EXCEPT
                          !.joined_count = JoinedCount(meetupId),
                          !.capacity = meetups[meetupId].capacity])

\* --------------------------------------- GET /api/meetups/:id/messages
MessagesBegin(r, user, meetupId) ==
  /\ UNCHANGED apiVars
  /\ Arrive(r, "read", user, meetupId, "none")
  /\ UNCHANGED <<meetups, participations, messages, local>>
  /\ IF ~isAuthenticated(user)
       THEN Respond(r, Reply(401, "Authentication required"))
       ELSE Goto(r, "read_meetup")

MessagesGetMeetup(r) ==
  /\ UNCHANGED apiVars
  /\ pc[r] = "read_meetup"
  /\ UNCHANGED <<meetups, participations, messages, req, pre>>
  /\ IF ~HasMeetup(req[r].meetupId)
       THEN /\ Respond(r, Reply(404, "Meetup not found"))
            /\ UNCHANGED local
       ELSE /\ local' = [local EXCEPT ![r].hostId = meetups[req[r].meetupId].hostId]
            /\ Goto(r, "read_member")

MessagesGetParticipation(r) ==
  /\ UNCHANGED apiVars
  /\ pc[r] = "read_member"
  /\ local' = [local EXCEPT ![r] = NoLocal]
  /\ UNCHANGED <<meetups, participations, messages, req, pre>>
  /\ IF AccessDenied(local[r].hostId = req[r].user,
                     getParticipation(req[r].meetupId, req[r].user))
       THEN Respond(r, Reply(403, "Access denied"))
       ELSE Goto(r, "read_list")

MessagesList(r) ==
  /\ UNCHANGED apiVars
  /\ pc[r] = "read_list"
  /\ Respond(r, [Reply(200, "") EXCEPT !.rows = getMessagesByMeetup(req[r].meetupId)])
  /\ UNCHANGED <<meetups, participations, messages, req, local, pre>>

\* -------------------------------------- POST /api/meetups/:id/messages
PostBegin(r, user, meetupId, body) ==
  /\ UNCHANGED apiVars
  /\ BagCardinality(messages) < MaxMessages
  /\ Arrive(r, "write", user, meetupId, body)
  /\ UNCHANGED <<meetups, participations, messages, local>>
  /\ IF ~isAuthenticated(user)
       THEN Respond(r, Reply(401, "Authentication required"))
       ELSE Goto(r, "write_meetup")

PostGetMeetup(r) ==
  /\ UNCHANGED apiVars
  /\ pc[r] = "write_meetup"
  /\ UNCHANGED <<meetups, participations, messages, req, pre>>
  /\ IF ~HasMeetup(req[r].meetupId)
       THEN /\ Respond(r, Reply(404, "Meetup not found"))
            /\ UNCHANGED local
       ELSE /\ local' = [local EXCEPT ![r].hostId = meetups[req[r].meetupId].hostId]
            /\ Goto(r, "write_member")

PostGetParticipation_ValidatesFirst(r) ==
  /\ UNCHANGED apiVars
  /\ pc[r] = "write_member"
  /\ local' = [local EXCEPT ![r] = NoLocal]
  /\ UNCHANGED <<meetups, participations, messages, req, pre>>
  /\ IF req[r].body = "invalid"
       THEN Respond(r, Reply(400, "Invalid message data"))
       ELSE IF AccessDenied(local[r].hostId = req[r].user,
                            getParticipation(req[r].meetupId, req[r].user))
         THEN Respond(r, Reply(403, "Access denied"))
         ELSE Goto(r, "write_insert")

PostGetParticipation(r) ==
  /\ UNCHANGED apiVars
  /\ pc[r] = "write_member"
  /\ local' = [local EXCEPT ![r] = NoLocal]
  /\ UNCHANGED <<meetups, participations, messages, req, pre>>
  /\ IF AccessDenied(local[r].hostId = req[r].user,
                     getParticipation(req[r].meetupId, req[r].user))
       THEN Respond(r, Reply(403, "Access denied"))
       ELSE IF req[r].body = "invalid"
         THEN Respond(r, Reply(400, "Invalid message data"))
         ELSE Goto(r, "write_insert")

PostInsert(r) ==
  /\ UNCHANGED apiVars
  /\ pc[r] = "write_insert"
  /\ LET messageData == Spread(BodyIds(req[r].body),
                                [meetupId |-> req[r].meetupId, userId |-> req[r].user])
     IN  messages' = messages (+) SetToBag({MessageRow(messageData.meetupId, messageData.userId)})
  /\ Respond(r, Reply(201, ""))
  /\ UNCHANGED <<meetups, participations, req, local, pre>>

\* ------------------------------------------ GET /api/user/joined-meetups
\* storage.getJoinedMeetups: the meetups the user holds a participation row for
getJoinedMeetups(userId) ==
  {m \in DOMAIN meetups : getParticipation(m, userId)}

GetJoinedMeetups(r, user) ==
  /\ Arrive(r, "joined", user, "none", "none")
  /\ UNCHANGED <<meetups, participations, messages, local, apiVars>>
  /\ IF ~isAuthenticated(user)
       THEN Respond(r, Reply(401, "Authentication required"))
       ELSE Respond(r, [Reply(200, "") EXCEPT !.rows = SetToBag(getJoinedMeetups(user))])

\* ------------------------------------------ GET /api/user/hosted-meetups
\* storage.getMeetupsByHost
getMeetupsByHost(hostId) ==
  {m \in DOMAIN meetups : meetups[m].hostId = hostId}

GetHostedMeetups(r, user) ==
  /\ Arrive(r, "hosted", user, "none", "none")
  /\ UNCHANGED <<meetups, participations, messages, local, apiVars>>
  /\ IF ~isAuthenticated(user)
       THEN Respond(r, Reply(401, "Authentication required"))
       ELSE Respond(r, [Reply(200, "") EXCEPT !.rows = SetToBag(getMeetupsByHost(user))])

\* ------------------------------------------------ PUT /api/user/profile
\* storage.updateUser: update ... set <updates> where id = :id
updateUser(U, id, updates) ==
  [u \in DOMAIN U |-> IF u = id THEN updates @@ U[u] ELSE U[u]]

UpdateProfile(r, user, body) ==
  /\ Arrive(r, "profile", user, "none", body)
  /\ UNCHANGED <<meetups, participations, messages, local, appFeedback>>
  /\ IF ~isAuthenticated(user)
       THEN /\ Respond(r, Reply(401, "Authentication required"))
            /\ UNCHANGED users
       ELSE LET updateData == [displayName |-> "updated", photoUrl |-> "updated"]
            IN  IF user \notin DOMAIN users
                  THEN /\ Respond(r, Reply(404, "User not found"))
                       /\ UNCHANGED users
                  ELSE /\ users' = updateUser(users, user, updateData)
                       /\ Respond(r, Reply(200, ""))

\* --------------------------------------------------- POST /api/feedback
CreateFeedback(r, user, body) ==
  /\ Arrive(r, "feedback", user, "none", body)
  /\ UNCHANGED <<meetups, participations, messages, local, users>>
  /\ IF ~isAuthenticated(user)
       THEN /\ Respond(r, Reply(401, "Authentication required"))
            /\ UNCHANGED appFeedback
       ELSE IF body = "invalid"
         THEN /\ Respond(r, Reply(400, "Invalid feedback data"))
              /\ UNCHANGED appFeedback
         ELSE /\ BagCardinality(appFeedback) < MaxMessages
              /\ LET feedbackData == Spread(BodyIds(body), [userId |-> user])
                 IN  appFeedback' = appFeedback (+) SetToBag({FeedbackRow(feedbackData.userId)})
              /\ Respond(r, Reply(201, ""))

\* --------------------------------------------------- POST /api/register
\* emails a registration may carry: those of users u1 and u2 and one nobody has
RegEmails == {"u1", "u2", "new"}

\* gen_random_uuid() of users.id: the keys new users receive, in order
RegIds == <<"n1", "n2">>

FreshUserId ==
  RegIds[CHOOSE i \in 1..Len(RegIds) :
           /\ RegIds[i] \notin DOMAIN users
           /\ \A j \in 1..(i - 1) : RegIds[j] \in DOMAIN users]

\* db.select().from(users).where(eq(users.email, email))
getUserByEmail(U, email) == {id \in DOMAIN U : U[id].email = email}

UniqueViolation_None(U, email) == FALSE

\* email: text("email").notNull().unique()
UniqueViolation(U, email) == getUserByEmail(U, email) # {}

\* the request arrives; the users table it finds is remembered
RegisterBegin(r, email) ==
  /\ UNCHANGED apiVars
  /\ Arrive(r, "register", NoUser, "none", email)
  /\ pre' = [pre EXCEPT ![r] = [NoPre EXCEPT !.users = users]]
  /\ UNCHANGED <<meetups, participations, messages, local>>
  /\ Goto(r, "register_existing")

\* await storage.getUserByEmail
RegisterGetUserByEmail(r) ==
  /\ UNCHANGED apiVars
  /\ pc[r] = "register_existing"
  /\ UNCHANGED <<meetups, participations, messages, req, local, pre>>
  /\ IF getUserByEmail(users, req[r].body) # {}
       THEN Respond(r, Reply(400, "Email already exists"))
       ELSE Goto(r, "register_create")

\* await hashPassword, await storage.createUser: the insert, refused by the
\* unique constraint (the catch block answers 500), then req.login and 201
RegisterCreateUser(r) ==
  /\ pc[r] = "register_create"
  /\ UNCHANGED <<meetups, participations, messages, req, local, pre, appFeedback>>
  /\ IF UniqueViolation(users, req[r].body)
       THEN /\ Respond(r, Reply(500, "Registration failed"))
            /\ UNCHANGED users
       ELSE /\ \E i \in 1..Len(RegIds) : RegIds[i] \notin DOMAIN users
            /\ users' = [x \in DOMAIN users \cup {FreshUserId} |->
                           IF x = FreshUserId
                             THEN [email |-> req[r].body, displayName |-> "initial",
                                   photoUrl |-> "initial"]
                             ELSE users[x]]
            /\ Respond(r, [Reply(201, "") EXCEPT !.login = FreshUserId])

\* ------------------------------------------- the response leaves the server
Deliver(r) ==
  /\ UNCHANGED apiVars
  /\ pc[r] = "done"
  /\ pc'    = [pc    EXCEPT ![r] = "idle"]
  /\ req'   = [req   EXCEPT ![r] = NoReq]
  /\ res'   = [res   EXCEPT ![r] = NoRes]
  /\ pre'   = [pre   EXCEPT ![r] = NoPre]
  /\ local' = [local EXCEPT ![r] = NoLocal]
  /\ UNCHANGED <<meetups, participations, messages, futVars, listVars, cliVars, homeVars, formVars, evVars, tzVars, navVars, gateVars>>

\* ---------------------------------------------------------- specifications
Callers == UserIds \cup {NoUser}

\* the steps a handler takes after its request has arrived
JoinLeaveStep(r) ==
  \/ JoinGetParticipation(r)
  \/ JoinGetMeetup(r)
  \/ JoinCount(r)
  \/ JoinInsert(r)
  \/ JoinRespond(r)
  \/ LeaveGetParticipation(r)
  \/ LeaveDelete(r)
  \/ LeaveCount(r)
  \/ LeaveRespond(r)
  \/ Deliver(r)

MessageStep(r) ==
  \/ MessagesGetMeetup(r)
  \/ MessagesGetParticipation(r)
  \/ MessagesList(r)
  \/ PostGetMeetup(r)
  \/ PostGetParticipation(r)
  \/ PostInsert(r)

\* join, leave and create requests of any callers, interleaved at their awaits
Next ==
  \/ \E r \in Reqs, u \in Callers, b \in Bodies, c \in Capacities :
        CreateMeetup(r, u, b, c) /\ UNCHANGED pre
  \/ \E r \in Reqs, u \in Callers, m \in MeetupIds : JoinBegin(r, u, m) /\ UNCHANGED pre
  \/ \E r \in Reqs, u \in Callers, m \in MeetupIds : LeaveBegin(r, u, m) /\ UNCHANGED pre
  \/ \E r \in Reqs : JoinLeaveStep(r)

vars == <<srvVars, apiVars, futVars, listVars, cliVars, homeVars, formVars, evVars, tzVars, navVars, gateVars>>

Spec == Init /\ [][Next]_vars

\* every endpoint, one request at a time
SeqNext ==
  \/ \E u \in Callers, b \in Bodies, c \in Capacities :
        Alone("r1") /\ CreateMeetup("r1", u, b, c)
  \/ \E u \in Callers, m \in MeetupIds : Alone("r1") /\ JoinBegin("r1", u, m)
  \/ \E u \in Callers, m \in MeetupIds : Alone("r1") /\ LeaveBegin("r1", u, m)
  \/ \E m \in MeetupIds : Alone("r1") /\ GetMeetupDetail("r1", m)
  \/ \E u \in Callers, m \in MeetupIds : Alone("r1") /\ MessagesBegin("r1", u, m)
  \/ \E u \in Callers, m \in MeetupIds, b \in Bodies : Alone("r1") /\ PostBegin("r1", u, m, b)
  \/ \E r \in Reqs : JoinLeaveStep(r)
  \/ \E r \in Reqs : MessageStep(r)

SeqSpec == Init /\ [][SeqNext]_vars

\* every endpoint of the API, one request at a time; two users and an
\* anonymous caller, meetups of the largest capacity
ApiCallers == {NoUser, "u1", "u2"}

\* one request at a time over every endpoint; ids are the keys meetups receive
ApiStep(ids) ==
  \/ \E u \in ApiCallers, b \in Bodies :
        Alone("r1") /\ CreateMeetupOf("r1", u, b, MaxCapacity, ids)
  \/ \E u \in ApiCallers, m \in MeetupIds : Alone("r1") /\ JoinBegin("r1", u, m)
  \/ \E u \in ApiCallers, m \in MeetupIds : Alone("r1") /\ LeaveBegin("r1", u, m)
  \/ \E m \in MeetupIds : Alone("r1") /\ GetMeetupDetail("r1", m)
  \/ \E u \in ApiCallers, m \in MeetupIds : Alone("r1") /\ MessagesBegin("r1", u, m)
  \/ \E u \in ApiCallers, m \in MeetupIds, b \in Bodies : Alone("r1") /\ PostBegin("r1", u, m, b)
  \/ \E u \in ApiCallers : Alone("r1") /\ GetJoinedMeetups("r1", u)
  \/ \E u \in ApiCallers : Alone("r1") /\ GetHostedMeetups("r1", u)
  \/ \E u \in ApiCallers, b \in Bodies \ {"invalid"} : Alone("r1") /\ UpdateProfile("r1", u, b)
  \/ \E u \in ApiCallers, b \in Bodies : Alone("r1") /\ CreateFeedback("r1", u, b)
  \/ \E r \in Reqs : JoinLeaveStep(r)
  \/ \E r \in Reqs : MessageStep(r)

ApiNext == ApiStep(IdOrder)

ApiSpec == Init /\ [][ApiNext]_vars

\* the same with a second meetup created after the first
CatalogNext == ApiStep(ApiIdOrder)

CatalogSpec == Init /\ [][CatalogNext]_vars

\* ------------------------------------------- a data-store call that throws
\* the awaits of the join and leave handlers inside their try blocks
JoinAwaits  == {"join_existing", "join_meetup", "join_count", "join_insert", "join_recount"}
LeaveAwaits == {"leave_existing", "leave_delete", "leave_count", "leave_meetup"}

\* the awaited call rejects (the statement it carried had no effect); the catch
\* block answers 500
StorageFails(r) ==
  /\ UNCHANGED apiVars
  /\ pc[r] \in JoinAwaits \cup LeaveAwaits
  /\ Respond(r, Reply(500, IF pc[r] \in JoinAwaits THEN "Failed to join meetup"
                                                   ELSE "Failed to leave meetup"))
  /\ UNCHANGED <<meetups, participations, messages, req, local, pre>>

\* join, leave and create, one request at a time, over a data store whose calls may fail
FailNext ==
  \/ \E u \in Callers, b \in Bodies, c \in Capacities :
        Alone("r1") /\ CreateMeetup("r1", u, b, c)
  \/ \E u \in Callers, m \in MeetupIds : Alone("r1") /\ JoinBegin("r1", u, m)
  \/ \E u \in Callers, m \in MeetupIds : Alone("r1") /\ LeaveBegin("r1", u, m)
  \/ \E r \in Reqs : JoinLeaveStep(r)
  \/ \E r \in Reqs : StorageFails(r)

FailSpec == Init /\ [][FailNext]_vars

\* ------------------------------------------- registrations, interleaved
RegNext ==
  \/ \E r \in Reqs, e \in RegEmails : RegisterBegin(r, e)
  \/ \E r \in Reqs : RegisterGetUserByEmail(r)
  \/ \E r \in Reqs : RegisterCreateUser(r)
  \/ \E r \in Reqs : Deliver(r)

RegSpec == Init /\ [][RegNext]_vars

\* ------------------------------------------- two requests, one after the other
\* r arrives once q has been answered and before q's slot is used again, and
\* the tables it finds are remembered
Follows(r, q) ==
  /\ pc[q] = "done"
  /\ pc[r] = "idle"
  /\ pre' = [pre EXCEPT ![r] = [participations |-> participations,
                                messages |-> messages, meetups |-> meetups,
                                users |-> users, appFeedback |-> appFeedback]]

\* create, join and leave one at a time; the request in slot r2 is the one
\* executed right after the request in slot r1, and the two responses leave
\* in the order of their requests
TripNext ==
  \/ \E u \in UserIds, c \in Capacities :
        Alone("r1") /\ CreateMeetup("r1", u, "valid", c)
  \/ \E u \in UserIds, m \in MeetupIds : Alone("r1") /\ JoinBegin("r1", u, m)
  \/ \E u \in UserIds, m \in MeetupIds : Alone("r1") /\ LeaveBegin("r1", u, m)
  \/ \E u \in UserIds, m \in MeetupIds : Follows("r2", "r1") /\ JoinBegin("r2", u, m)
  \/ \E u \in UserIds, m \in MeetupIds : Follows("r2", "r1") /\ LeaveBegin("r2", u, m)
  \/ JoinLeaveStep("r1")
  \/ ~(pc["r1"] = "done" /\ pc["r2"] = "done") /\ JoinLeaveStep("r2")

TripSpec == Init /\ [][TripNext]_vars

\* ===================================================================
\* get_future_meetups(p_topic, p_limit, p_offset, p_user_id)
\* ===================================================================
RowIds   == {"a", "b", "c"}
Topics   == {"tech", "culture"}
Hosts    == {"h1"}
NullArg  == "NULL"                               \* SQL NULL argument
QueryTopics == Topics \cup {NullArg, "philosophy"}  \* "philosophy": carried by no row
Instants == 0..MaxInstant
Limits   == 1..Cardinality(RowIds)        \* p_limit: up to the whole table in one page
PageIdx  == 0..(Cardinality(RowIds) - 1)  \* pages that can be non-empty at p_limit = 1

\* Asia/Jerusalem: UTC+2, and UTC+3 while daylight saving time is in force
StdOffset == 2
DstOffset == 3
DstInstants == {1, 2}

ZoneOffset(t) == IF t \in DstInstants THEN DstOffset ELSE StdOffset

\* now() AT TIME ZONE 'Asia/Jerusalem': the instant as a zone-less local timestamp
AtTimeZone(t) == t + ZoneOffset(t)

\* start_at values users typed: local wall-clock hours around the local "now"
StartTimes == (StdOffset + 2)..(MaxInstant + 4)

\* the comparison made with >= : a meetup starting right now still listed
IsFuture_Ge(start_at, at) == start_at >= AtTimeZone(at)

\* m.start_at > (now() AT TIME ZONE 'Asia/Jerusalem')
IsFuture(start_at, at) == start_at > AtTimeZone(at)

\* the WHERE clause without "p_topic IS NULL OR"
FutureRows_TopicOnly(T, at, p_topic, p_user_id) ==
  {id \in DOMAIN T :
     /\ IsFuture(T[id].start_at, at)
     /\ T[id].topic = p_topic
     /\ (p_user_id = NullArg \/ T[id].host_id = p_user_id)}

\* the WHERE clause
FutureRows(T, at, p_topic, p_user_id) ==
  {id \in DOMAIN T :
     /\ IsFuture(T[id].start_at, at)
     /\ (p_topic = NullArg \/ T[id].topic = p_topic)
     /\ (p_user_id = NullArg \/ T[id].host_id = p_user_id)}

\* ORDER BY m.start_at ASC: every enumeration of the rows in ascending start_at;
\* rows with equal start_at come in an order the executor is free to choose
OrderedByStartAt(S, T) ==
  {o \in [1..Cardinality(S) -> S] :
     /\ \A i, j \in 1..Cardinality(S) : i # j => o[i] # o[j]
     /\ \A i, j \in 1..Cardinality(S) : i < j => T[o[i]].start_at <= T[o[j]].start_at}

\* LIMIT p_limit OFFSET p_offset
LimitOffset(o, p_limit, p_offset) ==
  [i \in 1..(IF Len(o) - p_offset < 0 THEN 0
             ELSE IF Len(o) - p_offset < p_limit THEN Len(o) - p_offset
             ELSE p_limit) |-> o[p_offset + i]]

\* the results one call may return
get_future_meetups(T, at, p_topic, p_limit, p_offset, p_user_id) ==
  {LimitOffset(o, p_limit, p_offset) :
     o \in OrderedByStartAt(FutureRows(T, at, p_topic, p_user_id), T)}

NotFetched == [fetched |-> FALSE, rows |-> << >>]

\* any stored meetups, any evaluation instant; the client starts on "all topics";
\* the API server is idle
FutureInit ==
  /\ SrvInit
  /\ GateIdle
  /\ ListIdle
  /\ ClientIdle
  /\ HomeIdle
  /\ FormIdle
  /\ EventsIdle
  /\ FilterIdle
  /\ GuestIdle
  /\ sbMeetups \in [RowIds -> [start_at : StartTimes, topic : Topics, host_id : Hosts]]
  /\ now \in Instants
  /\ qTopic = NullArg
  /\ qLimit = Cardinality(RowIds)
  /\ pages = [k \in PageIdx |-> NotFetched]

\* the client changes topic or page size: a new query key, nothing fetched yet
SetQuery(topic, limit) ==
  /\ <<topic, limit>> # <<qTopic, qLimit>>
  /\ qTopic' = topic
  /\ qLimit' = limit
  /\ pages' = [k \in PageIdx |-> NotFetched]
  /\ UNCHANGED <<sbMeetups, now, srvVars, apiVars, listVars, cliVars, homeVars, formVars, evVars, tzVars, navVars, gateVars>>

\* supabase.rpc('get_future_meetups', {p_topic, p_limit, p_offset: page * p_limit})
FetchPage(k) ==
  /\ \E rows \in get_future_meetups(sbMeetups, now, qTopic, qLimit, k * qLimit, NullArg) :
       pages' = [pages EXCEPT ![k] = [fetched |-> TRUE, rows |-> rows]]
  /\ UNCHANGED <<sbMeetups, now, qTopic, qLimit, srvVars, apiVars, listVars, cliVars, homeVars, formVars, evVars, tzVars, navVars, gateVars>>

FutureNext ==
  \/ \E t \in QueryTopics, l \in Limits : SetQuery(t, l)
  \/ \E k \in PageIdx : FetchPage(k)

FutureSpec == FutureInit /\ [][FutureNext]_vars

\* ===================================================================
\* The "future" listings as two client devices of one user fetch them
\* ===================================================================
Clients   == {"c1", "c2"}
Viewer    == "h1"                         \* user.id of the signed-in user
ListHosts == {Viewer, "h2"}
ListRows  == {"a", "b"}
\* start_at values on both sides of the UTC and of the local wall clock
ListStartTimes == 1..(MaxInstant + StdOffset + 1)
NoListing == [tab |-> "none", build |-> "none", ids |-> {}]

\* new Date().toISOString(): the device's clock as UTC text with the Z designator
ToISOString(clock) == [hour |-> clock, zone |-> "Z"]

\* the text compared with a timestamp-without-time-zone column: the zone
\* designator is dropped, the wall-clock digits are kept
CastToTimestamp(iso) == iso.hour

\* .gte('start_at', new Date().toISOString())
GteClientNow(start_at, clock) == start_at >= CastToTimestamp(ToISOString(clock))

\* rpc('get_future_meetups', {p_limit: 1000, p_offset: 0}): one page holds every row
RpcAllFuture ==
  LET rows == CHOOSE o \in get_future_meetups(sbMeetups, now, NullArg,
                                              Cardinality(DOMAIN sbMeetups), 0, NullArg) : TRUE
  IN  {rows[i] : i \in 1..Len(rows)}

\* HomePage: first page of all topics
FetchHome(c) ==
  /\ listing' = [listing EXCEPT ![c] = [tab |-> "home", build |-> "rpc", ids |-> RpcAllFuture]]
  /\ UNCHANGED <<sbJoined, clientClock, futVars, srvVars, apiVars, cliVars, homeVars, formVars, evVars, tzVars, navVars, gateVars>>

\* MyEventsPage, joined tab, over the stored procedure
FetchJoinedRpc(c) ==
  /\ listing' = [listing EXCEPT ![c] =
        [tab |-> "joined", build |-> "rpc",
         ids |-> IF sbJoined = {} THEN {} ELSE {id \in RpcAllFuture : id \in sbJoined}]]
  /\ UNCHANGED <<sbJoined, clientClock, futVars, srvVars, apiVars, cliVars, homeVars, formVars, evVars, tzVars, navVars, gateVars>>

\* MyEventsPage, hosting tab, over the stored procedure
FetchHostedRpc(c) ==
  /\ listing' = [listing EXCEPT ![c] =
        [tab |-> "hosting", build |-> "rpc",
         ids |-> {id \in RpcAllFuture : sbMeetups[id].host_id = Viewer}]]
  /\ UNCHANGED <<sbJoined, clientClock, futVars, srvVars, apiVars, cliVars, homeVars, formVars, evVars, tzVars, navVars, gateVars>>

\* MyEventsPage, joined tab, selecting from meetups with the device's clock
FetchJoinedDirect(c) ==
  /\ listing' = [listing EXCEPT ![c] =
        [tab |-> "joined", build |-> "direct",
         ids |-> IF sbJoined = {} THEN {}
                 ELSE {id \in DOMAIN sbMeetups :
                         id \in sbJoined /\ GteClientNow(sbMeetups[id].start_at, clientClock[c])}]]
  /\ UNCHANGED <<sbJoined, clientClock, futVars, srvVars, apiVars, cliVars, homeVars, formVars, evVars, tzVars, navVars, gateVars>>

\* MyEventsPage, hosting tab, selecting from meetups with the device's clock
FetchHostedDirect(c) ==
  /\ listing' = [listing EXCEPT ![c] =
        [tab |-> "hosting", build |-> "direct",
         ids |-> {id \in DOMAIN sbMeetups :
                    /\ sbMeetups[id].host_id = Viewer
                    /\ GteClientNow(sbMeetups[id].start_at, clientClock[c])}]]
  /\ UNCHANGED <<sbJoined, clientClock, futVars, srvVars, apiVars, cliVars, homeVars, formVars, evVars, tzVars, navVars, gateVars>>

\* any stored meetups and participations at one real instant; the first device's
\* clock is right, the second one's reads anything
ListInit ==
  /\ SrvInit
  /\ GateIdle
  /\ ClientIdle
  /\ HomeIdle
  /\ FormIdle
  /\ EventsIdle
  /\ FilterIdle
  /\ GuestIdle
  /\ sbMeetups \in [ListRows -> [start_at : ListStartTimes, topic : {"tech"}, host_id : ListHosts]]
  /\ now \in Instants
  /\ qTopic = NullArg
  /\ qLimit = 1
  /\ pages = << >>
  /\ sbJoined \in SUBSET ListRows
  /\ clientClock \in {k \in [Clients -> Instants] : k["c1"] = now}
  /\ listing = [c \in Clients |-> NoListing]

ListNext ==
  \/ \E c \in Clients : FetchHome(c)
  \/ \E c \in Clients : FetchJoinedRpc(c)
  \/ \E c \in Clients : FetchHostedRpc(c)
  \/ \E c \in Clients : FetchJoinedDirect(c)
  \/ \E c \in Clients : FetchHostedDirect(c)

ListSpec == ListInit /\ [][ListNext]_vars

\* ===================================================================
\* Direct-to-backend client: the join / leave buttons of the meetup page
\* ===================================================================
ClientUsers  == {"u1", "u2"}
ClientMeetup == "m1"

\* a mutation that is not running and has shown no toast
NoMutation == [kind |-> "-", pc |-> "idle", outcome |-> "-", message |-> "-", deleted |-> 0]

\* rows a query with .eq('meetup_id', ..).eq('user_id', ..) matches
ClientRowsOf(u) == RowsOfIn(sbParticipations, ClientMeetup, u)

\* .single(): data only when exactly one row matches, otherwise null
SingleHasData(rows) == BagCardinality(rows) = 1

\* select('*', {count: 'exact'}).eq('meetup_id', ..).eq('status', 'joined')
ClientJoinedCount == CountIn(sbParticipations, ClientMeetup)

\* meetup && currentCount && currentCount >= meetup.capacity; the count is
\* null (Absent) when the count query returned an error
ClientIsFull(count) == count \notin {Absent, 0} /\ count >= sbCapacity

\* the mutation of user u moves on, leaving everything but the client alone
MutationStep(u, m) ==
  /\ mutation' = [mutation EXCEPT ![u] = m]
  /\ UNCHANGED <<sbCapacity, srvVars, apiVars, futVars, listVars, homeVars, formVars, evVars, tzVars, navVars, gateVars>>

Fail(u, msg) == [mutation[u] EXCEPT !.pc = "settled", !.outcome = "error", !.message = msg]

Succeed(u, n) ==
  [mutation[u] EXCEPT !.pc = "settled", !.outcome = "success", !.message = "-", !.deleted = n]

\* joinMutation.mutate(): user.id is set on this page
JoinMutationBegin(u) ==
  /\ mutation[u].pc = "idle"
  /\ MutationStep(u, [NoMutation EXCEPT !.kind = "join", !.pc = "existing"])
  /\ UNCHANGED sbParticipations

\* await select ... .single(); throws "Already joined this meetup"
JoinMutationExisting(u) ==
  /\ mutation[u].pc = "existing"
  /\ IF SingleHasData(ClientRowsOf(u))
       THEN MutationStep(u, Fail(u, "Already joined this meetup"))
       ELSE MutationStep(u, [mutation[u] EXCEPT !.pc = "count"])
  /\ UNCHANGED sbParticipations

\* await count, which may come back with an error; throws "Meetup is full"
JoinMutationCount(u, failed) ==
  /\ mutation[u].pc = "count"
  /\ IF ClientIsFull(IF failed THEN Absent ELSE ClientJoinedCount)
       THEN MutationStep(u, Fail(u, "Meetup is full"))
       ELSE MutationStep(u, [mutation[u] EXCEPT !.pc = "insert"])
  /\ UNCHANGED sbParticipations

\* await insert; the table's UNIQUE(user_id, meetup_id) refuses a second row
JoinMutationInsert(u) ==
  /\ mutation[u].pc = "insert"
  /\ IF ClientRowsOf(u) # EmptyBag
       THEN /\ MutationStep(u, Fail(u, "duplicate key"))
            /\ UNCHANGED sbParticipations
       ELSE /\ sbParticipations' =
                 sbParticipations (+) SetToBag({ParticipationRow(ClientMeetup, u, "joined")})
            /\ MutationStep(u, Succeed(u, 0))

\* what the delete reports: { error } is null also when no row matched
LeaveOutcome(u, rows) == Succeed(u, BagCardinality(rows))

\* leaveMutation.mutate(): one awaited delete, then { success: true }
LeaveMutation(u) ==
  /\ mutation[u].pc = "idle"
  /\ sbParticipations' = sbParticipations (-) ClientRowsOf(u)
  /\ MutationStep(u, [LeaveOutcome(u, ClientRowsOf(u)) EXCEPT !.kind = "leave"])

\* onSuccess / onError has shown its toast; the button is enabled again
MutationSettled(u) ==
  /\ mutation[u].pc = "settled"
  /\ MutationStep(u, NoMutation)
  /\ UNCHANGED sbParticipations

ClientInit ==
  /\ SrvInit
  /\ FutureIdle
  /\ ListIdle
  /\ GateIdle
  /\ HomeIdle
  /\ FormIdle
  /\ EventsIdle
  /\ FilterIdle
  /\ GuestIdle
  /\ sbParticipations = EmptyBag
  /\ sbCapacity \in Capacities
  /\ mutation = [u \in ClientUsers |-> NoMutation]

ClientNext ==
  \/ \E u \in ClientUsers : JoinMutationBegin(u)
  \/ \E u \in ClientUsers : JoinMutationExisting(u)
  \/ \E u \in ClientUsers, failed \in BOOLEAN : JoinMutationCount(u, failed)
  \/ \E u \in ClientUsers : JoinMutationInsert(u)
  \/ \E u \in ClientUsers : LeaveMutation(u)
  \/ \E u \in ClientUsers : MutationSettled(u)

ClientSpec == ClientInit /\ [][ClientNext]_vars

\* ===================================================================
\* HomePage: topic chips and pagination over get_future_meetups
\* ===================================================================
MEETUPS_PER_PAGE == 20

AllTopics  == "all"                     \* the chip that selects every topic
HomeTopics == {AllTopics, "tech"}

\* future rows a filter may match: none, a short page, exactly one page,
\* one page and a row, two full pages
HomeCounts == {0, MEETUPS_PER_PAGE - 1, MEETUPS_PER_PAGE,
               MEETUPS_PER_PAGE + 1, 2 * MEETUPS_PER_PAGE}

\* pages with rows, and the empty one after them
HomePages == 0..2

QueryKeys == HomeTopics \X HomePages

NotReceived == -1

\* rows the RPC returns for p_limit = MEETUPS_PER_PAGE, p_offset = page * MEETUPS_PER_PAGE
PageLength(topic, page) ==
  Len(LimitOffset([i \in 1..futureCount[topic] |-> i],
                  MEETUPS_PER_PAGE, page * MEETUPS_PER_PAGE))

\* const { data: meetups = [] } = useQuery(...): empty until the page arrived
ShownLength ==
  IF queryCache[<<selectedTopic, currentPage>>] = NotReceived
    THEN 0
    ELSE queryCache[<<selectedTopic, currentPage>>]

\* isLoading of the query of the page shown
HomeLoading == queryCache[<<selectedTopic, currentPage>>] = NotReceived

\* the pagination controls are rendered with the list of meetup cards only
PaginationShown ==
  /\ ~HomeLoading
  /\ ShownLength # 0
  /\ (currentPage > 0 \/ ShownLength = MEETUPS_PER_PAGE)

\* the buttons that are rendered and not disabled
PrevAvailable == PaginationShown /\ currentPage # 0
NextAvailable == PaginationShown /\ ~(ShownLength < MEETUPS_PER_PAGE)

HomeStep ==
  UNCHANGED <<futureCount, srvVars, apiVars, futVars, listVars, cliVars, formVars, evVars, tzVars, navVars, gateVars>>

\* queryFn of the query of the page shown resolves
HomeQueryResolves ==
  /\ queryCache[<<selectedTopic, currentPage>>] = NotReceived
  /\ queryCache' = [queryCache EXCEPT ![<<selectedTopic, currentPage>>] =
                      PageLength(selectedTopic, currentPage)]
  /\ UNCHANGED <<selectedTopic, currentPage, lastHandler>>
  /\ HomeStep

handleTopicChange(topic) ==
  /\ selectedTopic' = topic
  /\ currentPage' = 0
  /\ lastHandler' = "handleTopicChange"
  /\ UNCHANGED queryCache
  /\ HomeStep

handleNextPage_Unguarded ==
  /\ currentPage + 1 \in HomePages
  /\ currentPage' = currentPage + 1
  /\ lastHandler' = "handleNextPage"
  /\ UNCHANGED <<selectedTopic, queryCache>>
  /\ HomeStep

handleNextPage ==
  /\ NextAvailable
  /\ currentPage' = IF ShownLength = MEETUPS_PER_PAGE THEN currentPage + 1 ELSE currentPage
  /\ lastHandler' = "handleNextPage"
  /\ UNCHANGED <<selectedTopic, queryCache>>
  /\ HomeStep

handlePrevPage ==
  /\ PrevAvailable
  /\ currentPage' = IF currentPage > 0 THEN currentPage - 1 ELSE currentPage
  /\ lastHandler' = "handlePrevPage"
  /\ UNCHANGED <<selectedTopic, queryCache>>
  /\ HomeStep

\* the page opens on "all topics", page 0, nothing received; a topic's rows
\* are among the rows of all topics
HomeInit ==
  /\ SrvInit
  /\ FutureIdle
  /\ ListIdle
  /\ ClientIdle
  /\ GateIdle
  /\ FormIdle
  /\ EventsIdle
  /\ FilterIdle
  /\ GuestIdle
  /\ futureCount \in [HomeTopics -> HomeCounts]
  /\ \A t \in HomeTopics : futureCount[t] <= futureCount[AllTopics]
  /\ selectedTopic = AllTopics
  /\ currentPage = 0
  /\ queryCache = [k \in QueryKeys |-> NotReceived]
  /\ lastHandler = "-"

HomeNext ==
  \/ HomeQueryResolves
  \/ \E t \in HomeTopics : handleTopicChange(t)
  \/ handleNextPage
  \/ handlePrevPage

HomeSpec == HomeInit /\ [][HomeNext]_vars

\* ===================================================================
\* CompleteProfilePage: age validation and the profile upsert
\* ===================================================================
\* the age below which the form is rejected
AdultAge == 18

\* calendar dates <<year, month, day>>
DatesOf(years) == years \X (1..MonthsPerYear) \X (1..DaysPerMonth)
TodayYears == {19, 20}
BirthYears == {1, 2}

\* the calendar day before a date
PrevDay(date) ==
  IF date[3] > 1 THEN <<date[1], date[2], date[3] - 1>>
  ELSE IF date[2] > 1 THEN <<date[1], date[2] - 1, DaysPerMonth>>
  ELSE <<date[1] - 1, MonthsPerYear, DaysPerMonth>>

\* new Date("YYYY-MM-DD") is midnight UTC; getFullYear / getMonth / getDate
\* read it in the browser's zone: the day before in a zone west of UTC
LocalDateOf(birthdate, west) == IF west THEN PrevDay(birthdate) ELSE birthdate

\* years completed between two calendar dates
YearsBetween(today, birth) ==
  LET age == today[1] - birth[1]
      monthDiff == today[2] - birth[2]
  IN  IF monthDiff < 0 \/ (monthDiff = 0 /\ today[3] < birth[3]) THEN age - 1 ELSE age

\* calculateAge: today is new Date() read in the browser's zone
calculateAge(today, birthdate, west) == YearsBetween(today, LocalDateOf(birthdate, west))

FormStep(f) ==
  /\ form' = f
  /\ UNCHANGED <<srvVars, apiVars, futVars, listVars, cliVars, homeVars, evVars, tzVars, navVars, gateVars>>

\* a toast was shown and setIsSubmitting(false) called: the form can be sent again
Rejected(why) == [form EXCEPT !.pc = "form", !.isSubmitting = FALSE, !.toast = why]

\* handleSubmit up to its first await
handleSubmit ==
  /\ form.pc = "form"
  /\ ~form.isSubmitting
  /\ IF calculateAge(form.today, form.birthdate, form.west) < AdultAge
       THEN FormStep(Rejected("age"))
       ELSE FormStep([form EXCEPT !.pc = "getUser", !.isSubmitting = TRUE, !.toast = "-"])

\* await supabase.auth.getUser()
GetUserResolves ==
  /\ form.pc = "getUser"
  /\ IF ~form.signedIn
       THEN FormStep(Rejected("auth"))
       ELSE FormStep([form EXCEPT !.pc = IF form.avatarFile THEN "upload" ELSE "upsert"])

\* await supabase.storage.from('avatars').upload(...)
UploadResolves(failed) ==
  /\ form.pc = "upload"
  /\ IF failed
       THEN FormStep(Rejected("upload"))
       ELSE FormStep([form EXCEPT !.pc = "upsert"])

\* await supabase.from('profiles').upsert(profileData), then the success toast,
\* the refresh of the profile status and the navigation to /
UpsertResolves(failed) ==
  /\ form.pc = "upsert"
  /\ IF failed
       THEN FormStep(Rejected("save"))
       ELSE FormStep([form EXCEPT !.pc = "left", !.toast = "saved",
                                  !.written = TRUE, !.navigated = TRUE])

\* the user changes the birthdate typed into the form
updateFormData(birthdate) ==
  /\ form.pc = "form"
  /\ form.birthdate # birthdate
  /\ FormStep([form EXCEPT !.birthdate = birthdate, !.toast = "-"])

FormInit ==
  /\ SrvInit
  /\ FutureIdle
  /\ ListIdle
  /\ ClientIdle
  /\ HomeIdle
  /\ EventsIdle
  /\ FilterIdle
  /\ GuestIdle
  /\ GateIdle
  /\ form \in [today : DatesOf(TodayYears), birthdate : DatesOf(BirthYears),
               west : BOOLEAN, signedIn : BOOLEAN, avatarFile : BOOLEAN,
               pc : {"form"}, isSubmitting : {FALSE}, toast : {"-"},
               written : {FALSE}, navigated : {FALSE}]

FormNext ==
  \/ handleSubmit
  \/ GetUserResolves
  \/ \E failed \in BOOLEAN : UploadResolves(failed)
  \/ \E failed \in BOOLEAN : UpsertResolves(failed)
  \/ \E b \in DatesOf(BirthYears) : updateFormData(b)

FormSpec == FormInit /\ [][FormNext]_vars

\* ===================================================================
\* MyEventsPage: the joined and the hosting tab over get_future_meetups
\* ===================================================================
\* p_limit of both calls of the page
MY_EVENTS_LIMIT == 1000

\* a future meetup is named by its rank in ORDER BY start_at ASC
EventTotals == {0, 1, MY_EVENTS_LIMIT, MY_EVENTS_LIMIT + 1}
EventRanks  == {1, MY_EVENTS_LIMIT, MY_EVENTS_LIMIT + 1}
EventTabs   == {"joined", "hosting"}

\* the future rows that ... LIMIT p_limit OFFSET p_offset returns, out of total
FuturePage(total, p_limit, p_offset) ==
  {k \in 1..total : k > p_offset /\ k <= p_offset + p_limit}

EventsStep(e) ==
  /\ myEvents' = e
  /\ UNCHANGED <<srvVars, apiVars, futVars, listVars, cliVars, homeVars, formVars, tzVars, navVars, gateVars>>

\* queryFn of ["joined-meetups", user.id]
JoinedQueryResolves ==
  /\ myEvents.activeTab = "joined"
  /\ ~myEvents.joinedLoaded
  /\ LET meetupIds == myEvents.joined
         fetched == FuturePage(myEvents.total, MY_EVENTS_LIMIT, 0)
     IN  EventsStep([myEvents EXCEPT
           !.joinedLoaded = TRUE,
           !.joinedMeetups = IF meetupIds = {} THEN {}
                             ELSE {m \in fetched : m \in meetupIds}])

\* queryFn of ["hosted-meetups", user.id]
HostedQueryResolves ==
  /\ myEvents.activeTab = "hosting"
  /\ ~myEvents.hostedLoaded
  /\ LET fetched == FuturePage(myEvents.total, MY_EVENTS_LIMIT, 0)
     IN  EventsStep([myEvents EXCEPT
           !.hostedLoaded = TRUE,
           !.hostedMeetups = {m \in fetched : m \in myEvents.hosted}])

setActiveTab(tab) ==
  /\ myEvents.activeTab # tab
  /\ EventsStep([myEvents EXCEPT !.activeTab = tab])

\* any number of future meetups, any of them joined or hosted by the user
EventsInit ==
  /\ SrvInit
  /\ FutureIdle
  /\ ListIdle
  /\ ClientIdle
  /\ HomeIdle
  /\ FormIdle
  /\ FilterIdle
  /\ GuestIdle
  /\ GateIdle
  /\ \E total \in EventTotals :
       \E joined, hosted \in SUBSET {k \in EventRanks : k <= total} :
         myEvents = [total |-> total, joined |-> joined, hosted |-> hosted,
                     activeTab |-> "joined",
                     joinedLoaded |-> FALSE, joinedMeetups |-> {},
                     hostedLoaded |-> FALSE, hostedMeetups |-> {}]

EventsNext ==
  \/ JoinedQueryResolves
  \/ HostedQueryResolves
  \/ \E tab \in EventTabs : setActiveTab(tab)

EventsSpec == EventsInit /\ [][EventsNext]_vars

\* ===================================================================
\* The two future filters of get_future_meetups, side by side
\* ===================================================================
\* evaluation instants before, during and after daylight saving time
FilterInstants == 0..(MaxInstant + 2)
\* stored wall-clock hours, the skipped and the repeated local hour among them
FilterStartTimes == StdOffset..(MaxInstant + StdOffset + 3)

\* start_at AT TIME ZONE 'Asia/Jerusalem': a zone-less timestamp read as local
\* time of the zone.  A local hour that only exists under daylight saving time
\* is read with that offset; an hour skipped at the spring transition and an
\* hour repeated at the autumn transition are read with the standard offset.
LocalAtTimeZone(start_at) ==
  IF /\ ZoneOffset(start_at - DstOffset) = DstOffset
     /\ ZoneOffset(start_at - StdOffset) # StdOffset
    THEN start_at - DstOffset
    ELSE start_at - StdOffset

\* (start_at AT TIME ZONE 'Asia/Jerusalem') > now()
IsFutureOriginal(start_at, at) == LocalAtTimeZone(start_at) > at

Verdict(selected) == IF selected THEN "selected" ELSE "skipped"

FilterStep(c) ==
  /\ tzCheck' = c
  /\ UNCHANGED <<srvVars, apiVars, futVars, listVars, cliVars, homeVars, formVars, evVars, navVars, gateVars>>

\* the original function evaluates its WHERE clause on the row
EvalOriginal ==
  /\ tzCheck.original = "-"
  /\ FilterStep([tzCheck EXCEPT !.original = Verdict(IsFutureOriginal(tzCheck.start_at, tzCheck.at))])

\* the rewritten function evaluates its WHERE clause on the row
EvalRewritten ==
  /\ tzCheck.rewritten = "-"
  /\ FilterStep([tzCheck EXCEPT !.rewritten = Verdict(IsFuture(tzCheck.start_at, tzCheck.at))])

\* time passes and the same row is looked at again
NextInstant(at) ==
  /\ tzCheck.original # "-"
  /\ tzCheck.rewritten # "-"
  /\ at > tzCheck.at
  /\ FilterStep([tzCheck EXCEPT !.at = at, !.original = "-", !.rewritten = "-"])

FilterInit ==
  /\ SrvInit
  /\ FutureIdle
  /\ ListIdle
  /\ ClientIdle
  /\ HomeIdle
  /\ FormIdle
  /\ EventsIdle
  /\ GuestIdle
  /\ GateIdle
  /\ tzCheck \in [start_at : FilterStartTimes, at : {0},
                  original : {"-"}, rewritten : {"-"}]

FilterNext ==
  \/ EvalOriginal
  \/ EvalRewritten
  \/ \E at \in FilterInstants : NextInstant(at)

FilterSpec == FilterInit /\ [][FilterNext]_vars

\* ===================================================================
\* Browser client: AuthProvider, Router, ProfileGatekeeper
\* ===================================================================
GateUser == "u1"
\* routes of the Router; ProtectedPaths are mounted through ProtectedRoute
Paths == {"/", "/home", "/auth", "/complete-profile", "/my-events", "/profile"}
ProtectedPaths == {"/complete-profile", "/my-events", "/profile"}
\* BottomNav items: [path, requiresAuth]
NavItems == {[path |-> "/home", requiresAuth |-> FALSE],
             [path |-> "/my-events", requiresAuth |-> TRUE],
             [path |-> "/profile", requiresAuth |-> TRUE]}
ProfileRows == {"absent", "empty", "name"}

\* ProfileGatekeeper renders the spinner instead of its children
SignedIn == authUser.id # NoUser

LoaderShown == isLoading \/ (SignedIn /\ profileComplete = "null")

HomePageShown == ~LoaderShown /\ location \in {"/", "/home"}
AuthPageShown == ~LoaderShown /\ location = "/auth"

\* an effect is due after a render in which one of its dependencies changed
GateDeps     == <<"-", authUser, profileComplete>>
RefreshDeps  == <<location, authUser, profileComplete>>
AuthPageDeps == <<"-", authUser, "-">>
GateDue     == gateRan # GateDeps
RefreshDue  == refreshRan # RefreshDeps
AuthPageDue == AuthPageShown /\ authPageRan # AuthPageDeps
Settled     == ~(GateDue \/ RefreshDue \/ AuthPageDue)

\* wouter navigate: history.pushState; the browser keeps a bounded number of
\* entries and drops the oldest one
Push(stack, from) ==
  IF Len(stack) < MaxHistory THEN Append(stack, from) ELSE Append(Tail(stack), from)

\* a page load: React state starts over, the session and the history stay
Load ==
  /\ authUser' = NoAuthUser
  /\ isLoading' = TRUE
  /\ profileComplete' = "null"
  /\ getSessionPending' = TRUE
  /\ authEvents' = <<session>>
  /\ delivered' = 0
  /\ checks' = 0
  /\ refreshPending' = FALSE
  /\ gateRan' = Unmounted
  /\ refreshRan' = Unmounted
  /\ authPageRan' = Unmounted
  /\ UNCHANGED <<session, profiles, location, backStack>>

\* the body shared by the getSession continuation and the onAuthStateChange listener
OnSession(s) ==
  /\ delivered' = delivered + 1
  /\ authUser' = IF s = NoUser THEN NoAuthUser ELSE [id |-> s, ref |-> delivered + 1]
  /\ isLoading' = FALSE
  /\ IF s # NoUser
       THEN checks' = checks + 1 /\ UNCHANGED profileComplete
       ELSE profileComplete' = "null" /\ UNCHANGED checks

\* supabase.auth.getSession().then(...)
GetSessionResolves ==
  /\ Settled
  /\ getSessionPending
  /\ getSessionPending' = FALSE
  /\ OnSession(session)
  /\ UNCHANGED <<session, profiles, location, backStack, authEvents, refreshPending,
                 gateRan, refreshRan, authPageRan, srvVars, apiVars, futVars, listVars, cliVars, homeVars, formVars, evVars, tzVars, navVars>>

\* the onAuthStateChange listener receives the next event
AuthEvent ==
  /\ Settled
  /\ authEvents # << >>
  /\ authEvents' = Tail(authEvents)
  /\ OnSession(Head(authEvents))
  /\ UNCHANGED <<session, profiles, location, backStack, getSessionPending, refreshPending,
                 gateRan, refreshRan, authPageRan, srvVars, apiVars, futVars, listVars, cliVars, homeVars, formVars, evVars, tzVars, navVars>>

\* checkProfileCompletion: what the select of full_name leads to
ProfileCheckResult(row, failed) ==
  IF failed \/ row = "absent" THEN "false"
  ELSE IF row = "name" THEN "true" ELSE "false"

\* a checkProfileCompletion call gets its answer (or a network error)
CheckResolves(failed) ==
  /\ Settled
  /\ checks > 0
  /\ checks' = checks - 1
  /\ profileComplete' = ProfileCheckResult(profiles, failed)
  /\ UNCHANGED <<session, profiles, authUser, isLoading, location, backStack,
                 getSessionPending, authEvents, delivered, refreshPending,
                 gateRan, refreshRan, authPageRan, srvVars, apiVars, futVars, listVars, cliVars, homeVars, formVars, evVars, tzVars, navVars>>

\* the auth page's effect: if (user) setLocation(redirectTo || "/home")
AuthPageRedirects == AuthPageDue /\ SignedIn

\* the gatekeeper's redirect effect, dependencies [user, profileComplete, setLocation]
GateRedirects ==
  GateDue /\ SignedIn /\ profileComplete # "null" /\ profileComplete = "false"

\* the gatekeeper's refresh effect, dependencies [location, user, profileComplete]
GateRefreshes ==
  RefreshDue /\ location = "/" /\ SignedIn /\ profileComplete = "false"

\* the effects of one commit, children before parents, each with the values of
\* the render that scheduled it
RunEffects ==
  /\ ~Settled
  /\ LET afterAuth == IF AuthPageRedirects
                        THEN [loc |-> "/home", stack |-> Push(backStack, location)]
                        ELSE [loc |-> location, stack |-> backStack]
         afterGate == IF GateRedirects
                        THEN [loc |-> "/complete-profile", stack |-> Push(afterAuth.stack, afterAuth.loc)]
                        ELSE afterAuth
     IN /\ location' = afterGate.loc
        /\ backStack' = afterGate.stack
  /\ refreshPending' = (refreshPending \/ GateRefreshes)
  /\ gateRan' = GateDeps
  /\ refreshRan' = RefreshDeps
  /\ authPageRan' = IF AuthPageShown THEN AuthPageDeps ELSE Unmounted
  /\ UNCHANGED <<session, profiles, authUser, isLoading, profileComplete,
                 getSessionPending, authEvents, delivered, checks, srvVars, apiVars, futVars, listVars, cliVars, homeVars, formVars, evVars, tzVars, navVars>>

\* refreshProfileStatus gets its answer: reload when the row is missing or named
RefreshResolves(failed) ==
  /\ Settled
  /\ refreshPending
  /\ IF ~failed /\ profiles \in {"absent", "name"}
       THEN Load
       ELSE /\ refreshPending' = FALSE
            /\ UNCHANGED <<session, profiles, authUser, isLoading, profileComplete, location,
                           backStack, getSessionPending, authEvents, delivered, checks,
                           gateRan, refreshRan, authPageRan>>
  /\ UNCHANGED <<srvVars, apiVars, futVars, listVars, cliVars, homeVars, formVars, evVars, tzVars, navVars>>

\* the user reloads the page
Reload ==
  /\ Settled
  /\ Load
  /\ UNCHANGED <<srvVars, apiVars, futVars, listVars, cliVars, homeVars, formVars, evVars, tzVars, navVars>>

\* the browser's Back button: popstate, no page load
Back ==
  /\ Settled
  /\ backStack # << >>
  /\ location' = backStack[Len(backStack)]
  /\ backStack' = SubSeq(backStack, 1, Len(backStack) - 1)
  /\ UNCHANGED <<session, profiles, authUser, isLoading, profileComplete,
                 getSessionPending, authEvents, delivered, checks, refreshPending,
                 gateRan, refreshRan, authPageRan, srvVars, apiVars, futVars, listVars, cliVars, homeVars, formVars, evVars, tzVars, navVars>>

\* BottomNav.handleNavClick on the home page
handleNavClick(item) ==
  /\ Settled
  /\ HomePageShown
  /\ location' = IF item.requiresAuth /\ ~SignedIn THEN "/auth" ELSE item.path
  /\ backStack' = Push(backStack, location)
  /\ UNCHANGED <<session, profiles, authUser, isLoading, profileComplete,
                 getSessionPending, authEvents, delivered, checks, refreshPending,
                 gateRan, refreshRan, authPageRan, srvVars, apiVars, futVars, listVars, cliVars, homeVars, formVars, evVars, tzVars, navVars>>

\* loginMutation on the auth page: signInWithPassword succeeds, SIGNED_IN is emitted
SignIn ==
  /\ Settled
  /\ AuthPageShown
  /\ ~SignedIn
  /\ session = NoUser
  /\ session' = GateUser
  /\ authEvents' = Append(authEvents, GateUser)
  /\ UNCHANGED <<profiles, authUser, isLoading, profileComplete, location, backStack,
                 getSessionPending, delivered, checks, refreshPending,
                 gateRan, refreshRan, authPageRan, srvVars, apiVars, futVars, listVars, cliVars, homeVars, formVars, evVars, tzVars, navVars>>

\* a tab is opened on some path, with or without a stored session; a signed-out
\* visitor enters on a public path
GateInit ==
  /\ SrvInit
  /\ FutureIdle
  /\ ListIdle
  /\ ClientIdle
  /\ HomeIdle
  /\ FormIdle
  /\ EventsIdle
  /\ FilterIdle
  /\ GuestIdle
  /\ session \in {NoUser, GateUser}
  /\ profiles \in ProfileRows
  /\ location \in (IF session = NoUser THEN Paths \ ProtectedPaths ELSE Paths)
  /\ backStack = << >>
  /\ authUser = NoAuthUser
  /\ isLoading = TRUE
  /\ profileComplete = "null"
  /\ getSessionPending = TRUE
  /\ authEvents = <<session>>
  /\ delivered = 0
  /\ checks = 0
  /\ refreshPending = FALSE
  /\ gateRan = Unmounted
  /\ refreshRan = Unmounted
  /\ authPageRan = Unmounted

GateNext ==
  \/ GetSessionResolves
  \/ AuthEvent
  \/ \E failed \in BOOLEAN : CheckResolves(failed)
  \/ RunEffects
  \/ \E failed \in BOOLEAN : RefreshResolves(failed)
  \/ Reload
  \/ Back
  \/ \E item \in NavItems : handleNavClick(item)
  \/ SignIn

GateSpec == GateInit /\ [][GateNext]_vars

\* the auth callbacks every page load delivers
InitialCallbacks == {"getSession", "INITIAL_SESSION"}

\* the logout button of ProfilePage: logoutMutation, supabase.auth.signOut()
\* succeeds, the stored session is removed and SIGNED_OUT is emitted.  The
\* session a page load started with is the one signed out of, which keeps the
\* number of auth events of a page load finite.
SignOut ==
  /\ Settled
  /\ SignedIn
  /\ delivered <= Cardinality(InitialCallbacks)
  /\ ~LoaderShown
  /\ location = "/profile"
  /\ session # NoUser
  /\ session' = NoUser
  /\ authEvents' = Append(authEvents, NoUser)
  /\ UNCHANGED <<profiles, authUser, isLoading, profileComplete, location, backStack,
                 getSessionPending, delivered, checks, refreshPending,
                 gateRan, refreshRan, authPageRan, srvVars, apiVars, futVars, listVars, cliVars, homeVars, formVars, evVars, tzVars, navVars>>

\* the browser client with signing out
SessionNext ==
  \/ GateNext
  \/ SignOut

SessionSpec == GateInit /\ [][SessionNext]_vars

\* ===================================================================
\* A guest's protected action, the auth page, and where sign-in leads
\* ===================================================================
GuestMeetups == {"m1", "m2"}
\* `/meetup/${meetupId}`
MeetupPath(meetupId) == IF meetupId = "m1" THEN "/meetup/m1" ELSE "/meetup/m2"
\* pages that render the BottomNav
NavPages == {"/home", "/my-events", "/profile"}

GuestStep(g) ==
  /\ guest' = g
  /\ UNCHANGED <<srvVars, apiVars, futVars, listVars, cliVars, homeVars, formVars, evVars, tzVars, gateVars>>

\* AuthPage mounts on /auth with the given redirectTo query parameter:
\* useState(() => sessionStorage.getItem('onboardingComplete') !== 'true')
MountAuthPage(g, redirectTo) ==
  [g EXCEPT !.location = "/auth", !.redirectTo = redirectTo,
            !.showOnboarding = ~g.onboardingComplete]

\* setLocation to a page other than /auth: the query string goes
GoTo(g, path) == [g EXCEPT !.location = path, !.redirectTo = NullArg]

\* handleAuthRequired(redirectTo) for a guest, setLocation(target) for a user
ProtectedAction(target) ==
  IF ~guest.user
    THEN GuestStep(MountAuthPage([guest EXCEPT !.intended = target], target))
    ELSE GuestStep(GoTo(guest, target))

handleCreateMeetup ==
  /\ guest.location = "/home"
  /\ ProtectedAction("/create-meetup")

handleMeetupClick(meetupId) ==
  /\ guest.location = "/home"
  /\ ProtectedAction(MeetupPath(meetupId))

\* BottomNav.handleNavClick
BottomNavClick(item) ==
  /\ guest.location \in NavPages
  /\ guest.location # item.path
  /\ IF item.requiresAuth /\ ~guest.user
       THEN GuestStep(MountAuthPage([guest EXCEPT !.intendedAction = item.path,
                                                 !.intended = item.path], NullArg))
       ELSE GuestStep(GoTo(guest, item.path))

handleOnboardingComplete ==
  /\ guest.location = "/auth"
  /\ ~guest.user
  /\ guest.showOnboarding
  /\ LET g == [guest EXCEPT !.onboardingComplete = TRUE, !.showOnboarding = FALSE]
     IN  IF g.redirectTo # NullArg THEN GuestStep(g) ELSE GuestStep(GoTo(g, "/home"))

\* handleAuth: loginMutation succeeds and the auth state carries the user
handleAuth ==
  /\ guest.location = "/auth"
  /\ ~guest.user
  /\ ~guest.showOnboarding
  /\ GuestStep([guest EXCEPT !.user = TRUE])

\* AuthPage's effect on [user, setLocation, redirectTo]
AuthPageEffect ==
  /\ guest.location = "/auth"
  /\ guest.user
  /\ LET destination == IF guest.redirectTo # NullArg THEN guest.redirectTo ELSE "/home"
     IN  GuestStep([GoTo(guest, destination) EXCEPT !.arrived = destination])

\* the browser's back button on the auth page a guest was sent to: the page
\* the protected action was triggered on is shown again
GuestBack ==
  /\ guest.location = "/auth"
  /\ ~guest.user
  /\ guest.intended # "-"
  /\ GuestStep(GoTo(guest, "/home"))

\* a guest opens the home page or the auth page in a fresh tab or in one whose
\* sessionStorage holds the marks of earlier visits
GuestInit ==
  /\ SrvInit
  /\ FutureIdle
  /\ ListIdle
  /\ ClientIdle
  /\ HomeIdle
  /\ FormIdle
  /\ EventsIdle
  /\ FilterIdle
  /\ GateIdle
  /\ \E done \in BOOLEAN, path \in {"/home", "/auth"},
        stored \in {"-"} \cup {item.path : item \in {i \in NavItems : i.requiresAuth}} :
       guest = [location |-> path, redirectTo |-> NullArg,
                onboardingComplete |-> done,
                showOnboarding |-> (path = "/auth" /\ ~done),
                intendedAction |-> stored, user |-> FALSE,
                intended |-> "-", arrived |-> "-"]

GuestNext ==
  \/ handleCreateMeetup
  \/ \E m \in GuestMeetups : handleMeetupClick(m)
  \/ \E item \in NavItems : BottomNavClick(item)
  \/ handleOnboardingComplete
  \/ handleAuth
  \/ AuthPageEffect
  \/ GuestBack

GuestSpec == GuestInit /\ [][GuestNext]_vars

\* ===================================================================
\* Properties
\* ===================================================================
Answered(r, kind) ==
  /\ pc[r] = "done"
  /\ req[r].kind = kind
  /\ req[r].user \in UserIds

JoinedRow(r) == ParticipationRow(req[r].meetupId, req[r].user, "joined")

HadRow(r) ==
  BagCardinality(RowsOfIn(pre[r].participations, req[r].meetupId, req[r].user)) > 0

\* C1 (SeqSpec): with requests executed one at a time, a join by a user who holds
\* no row for an existing meetup of capacity N >= 1 succeeds with 201 and inserts
\* exactly its row while fewer than N rows exist, and once N rows exist it is
\* answered 400 "Meetup is full" and inserts nothing; so the first N joins of
\* distinct users succeed, the (N+1)th fails, and the row count never exceeds N.
C1_SequentialCapacity ==
  /\ \A m \in DOMAIN meetups : CountIn(participations, m) <= meetups[m].capacity
  /\ \A r \in Reqs :
       ( /\ Answered(r, "join")
         /\ HasMeetup(req[r].meetupId)
         /\ meetups[req[r].meetupId].capacity >= 1
         /\ ~HadRow(r) )
       => IF CountIn(pre[r].participations, req[r].meetupId)
               < meetups[req[r].meetupId].capacity
            THEN /\ res[r].status = 201
                 /\ participations = pre[r].participations (+) SetToBag({JoinedRow(r)})
            ELSE /\ res[r].status = 400
                 /\ res[r].message = "Meetup is full"
                 /\ participations = pre[r].participations

\* the (N+1)th join, N = 2: two rows exist and a third user is turned away
C1_Witness ==
  \E r \in Reqs :
    /\ Answered(r, "join")
    /\ HasMeetup(req[r].meetupId)
    /\ meetups[req[r].meetupId].capacity = 2
    /\ ~HadRow(r)
    /\ CountIn(pre[r].participations, req[r].meetupId) = 2
    /\ res[r].status = 400
    /\ res[r].message = "Meetup is full"

\* C2 (SeqSpec): a join by a user who already holds a row for the meetup is
\* answered 400 "Already joined this meetup", leaves the table as it was, and
\* the pair (user, meetup) keeps a single row.
C2_RejoinRejected ==
  \A r \in Reqs :
    (Answered(r, "join") /\ HadRow(r))
    => /\ res[r].status = 400
       /\ res[r].message = "Already joined this meetup"
       /\ participations = pre[r].participations
       /\ participations[JoinedRow(r)] = 1

C2_Witness ==
  \E r \in Reqs :
    /\ Answered(r, "join")
    /\ HadRow(r)
    /\ res[r].status = 400
    /\ CountIn(participations, req[r].meetupId) < meetups[req[r].meetupId].capacity

\* C3 (Spec): in every reachable state there is at most one participation row
\* for any (user, meetup) pair, concurrent joins of one user included.
C3_UniquePerUserMeetup ==
  \A u \in UserIds, m \in MeetupIds :
    BagCardinality(RowsOfIn(participations, m, u)) <= 1

\* C4 (Spec): the count check and the insert are separate steps and nothing
\* serialises them, so the row count can pass the capacity, by at most one row
\* for each further request in flight; a meetup of capacity 0 stays empty.
C4_OvershootBounded ==
  \A m \in DOMAIN meetups :
    CountIn(participations, m) <=
      IF meetups[m].capacity = 0 THEN 0
      ELSE meetups[m].capacity + Cardinality(Reqs) - 1

\* two joins of distinct users, both answered 201, on a meetup that had one
\* free slot: more rows than the capacity
C4_Witness ==
  \E r1 \in Reqs, r2 \in Reqs :
    /\ Answered(r1, "join") /\ Answered(r2, "join")
    /\ req[r1].user # req[r2].user
    /\ req[r1].meetupId = req[r2].meetupId
    /\ res[r1].status = 201 /\ res[r2].status = 201
    /\ C3_UniquePerUserMeetup
    /\ CountIn(participations, req[r1].meetupId)
         = meetups[req[r1].meetupId].capacity + 1

\* C7 (Spec): a leave by a user who is a participant, answered 200, has
\* removed exactly one participation row.
C7_LeaveRemovesExactlyOne ==
  \A r \in Reqs :
    (Answered(r, "leave") /\ res[r].status = 200 /\ local[r].deleted >= 1)
    => local[r].deleted = 1

\* C8 (SeqSpec): a signed-in user who is neither the host of an existing meetup
\* nor holds a participation row for it gets 403 on reading and on writing its
\* messages, receives no message, and no message row is created.
NonMember(r) ==
  /\ HasMeetup(req[r].meetupId)
  /\ meetups[req[r].meetupId].hostId # req[r].user
  /\ ~HadRow(r)

C8_NonMembersDenied ==
  \A r \in Reqs :
    ((Answered(r, "read") \/ Answered(r, "write")) /\ NonMember(r))
    => /\ res[r].status = 403
       /\ res[r].rows = EmptyBag
       /\ messages = pre[r].messages

\* a user who wrote a message as a participant and then left is denied
C8_Witness ==
  \E r \in Reqs :
    /\ Answered(r, "read")
    /\ NonMember(r)
    /\ res[r].status = 403
    /\ BagIn(MessageRow(req[r].meetupId, req[r].user), messages)

\* C10 (SeqSpec): with requests executed one at a time, the joined_count sent by
\* a successful join, by a successful leave and by the meetup detail read is the
\* number of participation rows of the meetup at that moment, and is_full is
\* true exactly when joined_count >= capacity.
C10_JoinedCountConsistent ==
  \A r \in Reqs :
    ( /\ pc[r] = "done"
      /\ \/ req[r].kind = "join"   /\ res[r].status = 201
         \/ req[r].kind = "leave"  /\ res[r].status = 200
         \/ req[r].kind = "detail" /\ res[r].status = 200 )
    => /\ res[r].joined_count =
            BagCardinality(SubBagWhere(participations,
                LAMBDA x : x.meetupId = req[r].meetupId))
       /\ res[r].capacity = meetups[req[r].meetupId].capacity
       /\ req[r].kind # "detail" =>
            (res[r].is_full <=> res[r].joined_count >= meetups[req[r].meetupId].capacity)

C10_Witness ==
  \E r \in Reqs :
    /\ pc[r] = "done"
    /\ req[r].kind = "detail"
    /\ res[r].status = 200
    /\ res[r].joined_count = 2

\* ids a page holds
PageIds(k) == {pages[k].rows[i] : i \in 1..Len(pages[k].rows)}

\* C5 (FutureSpec): with no topic and no host filter, offset 0 and a limit that
\* covers the whole table, a meetup is in the output of get_future_meetups
\* exactly when its start_at is strictly after the evaluation instant expressed
\* as Asia/Jerusalem local time; a meetup starting at that very time is excluded.
C5_FutureIffStrictlyAfter ==
  (pages[0].fetched /\ qTopic = NullArg /\ qLimit >= Cardinality(DOMAIN sbMeetups))
  => \A id \in DOMAIN sbMeetups :
       id \in PageIds(0) <=> sbMeetups[id].start_at > now + ZoneOffset(now)

\* one meetup in the past, one starting at the local "now" (left out), one listed
C5_Witness ==
  /\ pages[0].fetched /\ qTopic = NullArg /\ qLimit >= Cardinality(DOMAIN sbMeetups)
  /\ \E x, y, z \in DOMAIN sbMeetups :
       /\ sbMeetups[x].start_at < now + ZoneOffset(now)
       /\ sbMeetups[y].start_at = now + ZoneOffset(now)
       /\ sbMeetups[z].start_at > now + ZoneOffset(now)
       /\ x \notin PageIds(0) /\ y \notin PageIds(0) /\ z \in PageIds(0)

\* C6 (FutureSpec): for a fixed limit and topic, unchanged data and the same
\* evaluation instant, page k and page k+1 share no meetup, whatever the stored
\* start_at values.
C6_PagesDisjoint ==
  \A k \in PageIdx :
    (k + 1 \in PageIdx /\ pages[k].fetched /\ pages[k + 1].fetched)
    => PageIds(k) \cap PageIds(k + 1) = {}

\* no promise or auth event of the page is outstanding
NothingInFlight ==
  ~getSessionPending /\ authEvents = << >> /\ checks = 0 /\ ~refreshPending

\* C9 (GateSpec): while a user without a stored display name is signed in, once
\* the effects of a render have run and nothing is in flight, the only page the
\* app shows them is /complete-profile, whatever navigation brought them to the
\* current path.
C9_OnlyCompleteProfileShown ==
  (Settled /\ NothingInFlight /\ ~LoaderShown /\ SignedIn /\ profiles # "name")
  => location = "/complete-profile"

\* C11 (FailSpec): a join or leave request answered with an error status (4xx or
\* 5xx) leaves the participations table exactly as the request found it.
C11_ErrorLeavesTableUnchanged ==
  \A r \in Reqs :
    (pc[r] = "done" /\ req[r].kind \in {"join", "leave"} /\ res[r].status >= 400)
    => participations = pre[r].participations

\* C12 (ListSpec): for the same stored data and the same real instant, two
\* client devices that fetched the same "future" listing hold the same set of
\* meetups, whatever their own clocks read.
C12_ListingIndependentOfClient ==
  \A c \in Clients, d \in Clients :
    ( /\ listing[c].tab # "none"
      /\ listing[c].tab = listing[d].tab
      /\ listing[c].build = listing[d].build )
    => listing[c].ids = listing[d].ids

\* C13 (FutureSpec): with p_topic NULL no topic restriction applies; with a topic
\* T every returned meetup carries topic T and, the limit covering the table,
\* every future meetup of topic T is returned; a topic that no meetup carries
\* gives an empty result.
C13_TopicFilter ==
  /\ \A k \in PageIdx :
       (pages[k].fetched /\ qTopic # NullArg)
       => \A id \in PageIds(k) : sbMeetups[id].topic = qTopic
  /\ (pages[0].fetched /\ qLimit >= Cardinality(DOMAIN sbMeetups))
     => /\ PageIds(0) = {id \in DOMAIN sbMeetups :
                           /\ sbMeetups[id].start_at > now + ZoneOffset(now)
                           /\ (qTopic = NullArg \/ sbMeetups[id].topic = qTopic)}
        /\ (\A id \in DOMAIN sbMeetups : sbMeetups[id].topic # qTopic) /\ qTopic # NullArg
             => pages[0].rows = << >>

\* a topic is selected: a future meetup of that topic is listed, a future meetup
\* of the other topic is not
C13_Witness ==
  /\ pages[0].fetched /\ qTopic \in Topics /\ qLimit >= Cardinality(DOMAIN sbMeetups)
  /\ \E x, y \in DOMAIN sbMeetups :
       /\ sbMeetups[x].topic = qTopic /\ sbMeetups[y].topic # qTopic
       /\ sbMeetups[x].start_at > now + ZoneOffset(now)
       /\ sbMeetups[y].start_at > now + ZoneOffset(now)
       /\ x \in PageIds(0) /\ y \notin PageIds(0)

\* the tables are as the request found them
TablesUntouched(r) ==
  /\ meetups = pre[r].meetups
  /\ participations = pre[r].participations
  /\ messages = pre[r].messages
  /\ users = pre[r].users
  /\ appFeedback = pre[r].appFeedback

ProtectedKinds ==
  {"create", "join", "leave", "joined", "hosted", "read", "write", "profile", "feedback"}

\* C14 (ApiSpec): a request to a session-protected endpoint (create meetup, join,
\* leave, joined and hosted lists, messages read and write, profile update,
\* feedback) that carries no authenticated session is answered 401 and leaves
\* every table unchanged.
C14_NoSessionGets401 ==
  \A r \in Reqs :
    (pc[r] = "done" /\ req[r].kind \in ProtectedKinds /\ req[r].user = NoUser)
    => /\ res[r].status = 401
       /\ res[r].rows = EmptyBag
       /\ TablesUntouched(r)

\* an anonymous message post with a well-formed body to an existing meetup
C14_Witness ==
  \E r \in Reqs :
    /\ pc[r] = "done" /\ req[r].kind = "write" /\ req[r].user = NoUser
    /\ req[r].body = "valid" /\ HasMeetup(req[r].meetupId)
    /\ res[r].status = 401

\* C15 (ApiSpec): a profile update changes displayName and photoUrl of the
\* session user's own row and nothing else; the host of a created meetup, the
\* author and meetup of a created message and the author of feedback are the
\* session user and the meetup of the URL, whatever ids the body carries.
C15_WritesBoundToSessionUser ==
  \A r \in Reqs :
    (pc[r] = "done" /\ req[r].user \in UserIds)
    => /\ (req[r].kind = "profile" /\ res[r].status = 200)
            => /\ \A u \in UserIds \ {req[r].user} : users[u] = pre[r].users[u]
               /\ users[req[r].user].email = pre[r].users[req[r].user].email
               /\ users[req[r].user].displayName = "updated"
               /\ users[req[r].user].photoUrl = "updated"
               /\ meetups = pre[r].meetups /\ participations = pre[r].participations
               /\ messages = pre[r].messages /\ appFeedback = pre[r].appFeedback
       /\ (req[r].kind = "create" /\ res[r].status = 201)
            => /\ \A m \in DOMAIN meetups \ DOMAIN pre[r].meetups :
                    meetups[m].hostId = req[r].user
               /\ DOMAIN meetups # DOMAIN pre[r].meetups
       /\ (req[r].kind = "write" /\ res[r].status = 201)
            => messages = pre[r].messages (+)
                            SetToBag({MessageRow(req[r].meetupId, req[r].user)})
       /\ (req[r].kind = "feedback" /\ res[r].status = 201)
            => appFeedback = pre[r].appFeedback (+) SetToBag({FeedbackRow(req[r].user)})

\* a message posted with a body that names another user and another meetup
C15_Witness ==
  \E r \in Reqs :
    /\ pc[r] = "done" /\ req[r].kind = "write" /\ req[r].body = "spoofed"
    /\ req[r].user \in UserIds /\ req[r].user # SpoofedUser
    /\ req[r].meetupId # SpoofedMeetup
    /\ res[r].status = 201

\* ---- C16 --------------------------------------------------------------
\* C16 as the spec words it: in the direct-to-backend client a leave by a
\* user who holds no participation row for the meetup is reported as an
\* error and deletes nothing.
C16_LeaveWithoutRowIsError ==
  \A u \in ClientUsers :
    (mutation[u].kind = "leave" /\ mutation[u].pc = "settled" /\ mutation[u].deleted = 0)
      => mutation[u].outcome = "error"

\* ---- C17 --------------------------------------------------------------
\* C17: a meetup row is immutable after creation: no step of any API
\* operation (a later create included) changes or removes a stored meetup.
C17_MeetupImmutable ==
  [][\A m \in DOMAIN meetups : m \in DOMAIN meetups' /\ meetups'[m] = meetups[m]]_vars

\* two meetups are stored, and a join and a profile update have been
\* carried out
C17_Witness ==
  /\ DOMAIN meetups = {"m1", "m2"}
  /\ participations # EmptyBag
  /\ \E u \in UserIds : users[u].displayName # "initial"

\* ---- C18 --------------------------------------------------------------
\* C18: on the home list, selecting a topic resets the page index to 0, the
\* page index is never negative, and the index grows only by the next-page
\* handler while the page shown holds exactly MEETUPS_PER_PAGE meetups.
C18_PageState ==
  /\ [](currentPage >= 0)
  /\ [](lastHandler = "handleTopicChange" => currentPage = 0)
  /\ [][currentPage' > currentPage =>
          /\ lastHandler' = "handleNextPage"
          /\ ShownLength = MEETUPS_PER_PAGE
          /\ currentPage' = currentPage + 1]_vars

\* the second page of a topic is shown, with a page behind it to go back to
C18_Witness ==
  /\ selectedTopic = "tech"
  /\ lastHandler = "handleNextPage"
  /\ currentPage = 1
  /\ ShownLength = 1

\* ---- C19 --------------------------------------------------------------
\* the answer the join handler's checks give, in the order they are made
JoinVerdict(r) ==
  IF req[r].user = NoUser THEN <<401, "Authentication required">>
  ELSE IF HadRow(r) THEN <<400, "Already joined this meetup">>
  ELSE IF req[r].meetupId \notin DOMAIN pre[r].meetups THEN <<404, "Meetup not found">>
  ELSE IF CountIn(pre[r].participations, req[r].meetupId)
            >= pre[r].meetups[req[r].meetupId].capacity
    THEN <<400, "Meetup is full">>
  ELSE <<201, "">>

\* C19 (SeqSpec): a join is checked in the order 401 (no session), 400
\* "Already joined this meetup", 404 (no such meetup), 400 "Meetup is full",
\* and its row is inserted only when all four checks pass; so an already
\* joined user of a full meetup is told "Already joined this meetup" and a
\* join for a meetup that does not exist inserts nothing.
C19_JoinCheckOrder ==
  \A r \in Reqs :
    (pc[r] = "done" /\ req[r].kind = "join") =>
      /\ <<res[r].status, res[r].message>> = JoinVerdict(r)
      /\ participations =
           IF JoinVerdict(r)[1] = 201
             THEN pre[r].participations (+) SetToBag({JoinedRow(r)})
             ELSE pre[r].participations

\* an already joined user of a full meetup has been answered
C19_Witness ==
  \E r \in Reqs :
    /\ pc[r] = "done"
    /\ req[r].kind = "join"
    /\ HadRow(r)
    /\ req[r].meetupId \in DOMAIN pre[r].meetups
    /\ CountIn(pre[r].participations, req[r].meetupId)
         >= pre[r].meetups[req[r].meetupId].capacity
    /\ res[r].message = "Already joined this meetup"

\* ---- C20 --------------------------------------------------------------
\* C20 as the spec words it: profileComplete describes the user signed in;
\* whenever the auth context holds no user, once loaded, the flag is null
\* (no profile check started for an ended session writes it afterwards).
C20_FlagNullWithoutUser ==
  (~isLoading /\ ~SignedIn) => profileComplete = "null"

\* ---- C21 --------------------------------------------------------------
\* both slots hold an answered request for one meetup, r2's executed right
\* after r1's
Pair(kind1, kind2) ==
  /\ pc["r1"] = "done" /\ pc["r2"] = "done"
  /\ req["r1"].kind = kind1 /\ req["r2"].kind = kind2
  /\ req["r1"].meetupId = req["r2"].meetupId

\* C21 (TripSpec): with requests executed one at a time, a join answered 201
\* followed by a leave of the same user puts the participations table back to
\* its contents before the join; after a successful leave the same user's join
\* is answered 201; and after a successful leave from a full meetup the join of
\* another user without a row is answered 201.
C21_JoinLeaveRoundTrip ==
  /\ (Pair("join", "leave") /\ req["r1"].user = req["r2"].user /\ res["r1"].status = 201)
       => /\ res["r2"].status = 200
          /\ participations = pre["r1"].participations
  /\ (Pair("leave", "join") /\ req["r1"].user = req["r2"].user /\ res["r1"].status = 200)
       => /\ res["r2"].status = 201
          /\ participations = pre["r1"].participations
  /\ ( /\ Pair("leave", "join")
       /\ req["r1"].user # req["r2"].user
       /\ res["r1"].status = 200
       /\ CountIn(pre["r1"].participations, req["r1"].meetupId)
            = meetups[req["r1"].meetupId].capacity
       /\ ~HadRow("r2") )
       => /\ res["r2"].status = 201
          /\ CountIn(participations, req["r1"].meetupId)
               = meetups[req["r1"].meetupId].capacity

\* a user joined a meetup in which another user holds a row, and left again
C21_Witness ==
  /\ Pair("join", "leave")
  /\ req["r1"].user = req["r2"].user
  /\ res["r1"].status = 201
  /\ res["r2"].status = 200
  /\ pre["r1"].participations # EmptyBag

\* ---- C22 --------------------------------------------------------------
\* C22 (RegSpec): no two users carry the same email, also with two
\* registrations in flight; and a registration whose email belongs to a user
\* when it arrives is answered 400 "Email already exists", creates no user
\* with that email and logs no one in.
C22_EmailUnique ==
  /\ \A a, b \in DOMAIN users : users[a].email = users[b].email => a = b
  /\ \A r \in Reqs :
       ( /\ pc[r] = "done"
         /\ req[r].kind = "register"
         /\ getUserByEmail(pre[r].users, req[r].body) # {} )
       => /\ res[r].status = 400
          /\ res[r].message = "Email already exists"
          /\ res[r].login = NoUser
          /\ getUserByEmail(users, req[r].body) = getUserByEmail(pre[r].users, req[r].body)

\* two registrations of one fresh email were in flight together: one created
\* the user, the other was refused by the table
C22_Witness ==
  \E r, q \in Reqs :
    /\ pc[r] = "done" /\ pc[q] = "done"
    /\ req[r].body = "new" /\ req[q].body = "new"
    /\ res[r].status = 201
    /\ res[q].status = 500
    /\ Cardinality(getUserByEmail(users, "new")) = 1

\* ---- C23 --------------------------------------------------------------
\* C23 as the spec words it: a signed-in user whose stored profile has a
\* non-empty full_name is never redirected to /complete-profile, whatever the
\* outcome of the profile lookup.
C23_NamedProfileNeverRedirected ==
  [][(SignedIn /\ profiles = "name") => ~(RunEffects /\ GateRedirects)]_vars

\* ---- C24 --------------------------------------------------------------
\* C24 as the spec words it: on the home list, whenever the page index is
\* greater than 0 (and the page has arrived) the previous-page control is
\* available, also on a page whose query returned no meetups.
C24_PrevAvailableBeyondFirstPage ==
  (currentPage > 0 /\ ~HomeLoading) => PrevAvailable

\* ---- C25 --------------------------------------------------------------
\* the caller of r was host or participant of the meetup when r arrived
WasMember(r) ==
  \/ pre[r].meetups[req[r].meetupId].hostId = req[r].user
  \/ HadRow(r)

\* the status the checks of the message handlers give, in the order made
MessageVerdict(r) ==
  IF req[r].user = NoUser THEN 401
  ELSE IF req[r].meetupId \notin DOMAIN pre[r].meetups THEN 404
  ELSE IF ~WasMember(r) THEN 403
  ELSE IF req[r].kind = "write" /\ req[r].body = "invalid" THEN 400
  ELSE IF req[r].kind = "write" THEN 201 ELSE 200

\* C25 (SeqSpec): reading and writing messages is checked in the order
\* session (401), meetup existence (404), host-or-participant (403), body
\* (400): a nonexistent meetup gives 404 whoever asks, a non-member posting an
\* invalid body gets 403, a member posting an invalid body gets 400, and a
\* message row is stored only on 201.
C25_MessageCheckOrder ==
  \A r \in Reqs :
    (pc[r] = "done" /\ req[r].kind \in {"read", "write"}) =>
      /\ res[r].status = MessageVerdict(r)
      /\ MessageVerdict(r) # 201 => messages = pre[r].messages

\* a non-member posted an invalid body and was answered 403
C25_Witness ==
  \E r \in Reqs :
    /\ pc[r] = "done"
    /\ req[r].kind = "write"
    /\ req[r].body = "invalid"
    /\ req[r].user # NoUser
    /\ req[r].meetupId \in DOMAIN pre[r].meetups
    /\ ~WasMember(r)
    /\ res[r].status = 403

\* ---- C26 --------------------------------------------------------------
\* C26 as the spec words it: the direct-to-backend client join never inserts
\* a participation row while the meetup's 'joined' rows number at least its
\* capacity, for every capacity (0 included) and every outcome of the count.
C26_ClientJoinRespectsCapacity ==
  [][\A u \in ClientUsers :
       (JoinMutationInsert(u) /\ sbParticipations' # sbParticipations)
         => ClientJoinedCount < sbCapacity]_vars

\* ---- C27 --------------------------------------------------------------
\* C27 as the spec words it: the profile row is written only for a signed-in
\* user whose age, counted from the birthdate typed to today, is at least 18
\* (18 years ago today is accepted, 18 years ago tomorrow is not); and after a
\* rejection or a failed avatar upload nothing is written, nothing navigates
\* and the form can be submitted again.
C27_ProfileWrittenOnlyForAdults ==
  /\ form.written =>
       /\ form.signedIn
       /\ YearsBetween(form.today, form.birthdate) >= AdultAge
  /\ form.toast \in {"age", "auth", "upload"} =>
       /\ ~form.written
       /\ ~form.navigated
       /\ form.pc = "form" /\ ~form.isSubmitting

\* ---- C28 --------------------------------------------------------------
\* C28 as the spec words it: once a tab of My Events has loaded it lists
\* exactly the user's future meetups -- the joined tab those the user holds a
\* 'joined' participation for, the hosting tab those the user hosts -- whatever
\* the number of future meetups stored.
C28_MyEventsComplete ==
  /\ myEvents.joinedLoaded => myEvents.joinedMeetups = myEvents.joined
  /\ myEvents.hostedLoaded => myEvents.hostedMeetups = myEvents.hosted

\* ---- C29 --------------------------------------------------------------
\* C29 as the spec words it: for every stored start_at and every instant,
\* those around the daylight-saving transitions included, the rewritten filter
\* selects a meetup exactly when the original filter selects it.
C29_FiltersEquivalent ==
  (tzCheck.original # "-" /\ tzCheck.rewritten # "-") =>
     tzCheck.original = tzCheck.rewritten

\* ---- C30 --------------------------------------------------------------
\* C30 as the spec words it: the navigation that follows a successful sign-in
\* goes to the target of the protected action the guest triggered -- a meetup
\* or "create meetup" on the home page, or an auth-required item of the bottom
\* navigation -- and to /home only when no target was intended.
C30_ArrivesAtIntended ==
  guest.arrived # "-" =>
     guest.arrived = (IF guest.intended = "-" THEN "/home" ELSE guest.intended)

====
